---- MODULE Spec2Model ----
(***************************************************************************)
(* mobx-loro: the flyweight pool of observable wrappers over Loro          *)
(* containers, the per-wrapper MobX atom with its lazy subscription, and   *)
(* the two notification paths (synchronous for local writes, event driven  *)
(* for imported ones).                                                     *)
(*                                                                         *)
(* Two external collaborators are modelled at their boundary only:         *)
(*  - the Loro document: container contents, the tree structure, and a     *)
(*    queue of event batches that the document delivers on its flush to    *)
(*    the callbacks subscribed at that moment (events bubble from a        *)
(*    container to its ancestors);                                         *)
(*  - MobX: an atom has a set of observing reactions, the hooks fire on    *)
(*    the first observer attaching and the last one detaching, and a       *)
(*    reportChanged re-runs every observing reaction once at the end of    *)
(*    the enclosing batch.                                                 *)
(***************************************************************************)
EXTENDS Integers, Sequences, FiniteSets, TLC

\* ------------------------------------------------------------------ bounds
MaxWrappers == 2    \* wrapper objects ever created by the pool
MaxNodes == 3       \* tree nodes that ever exist in the document
MaxDocOps == 1      \* mutations applied to the document (local or imported)
MaxVal == 1         \* container contents range over 0..MaxVal
MaxObjects == 3     \* node wrapper objects ever constructed for one tree wrapper
MaxChildren == 1    \* child containers ever inserted into the root containers
MaxIndex == 1       \* highest list index followed
MaxDeps == 2        \* atoms one reaction reads
MaxPools == 3       \* pools ever constructed by the utility functions

\* ------------------------------------------------------------- the domain
Kinds == {"map", "tree", "movable", "list", "text"}
\* LoroCounter is a container class of loro-crdt that pool.get does not test for
OtherKinds == {"counter"}
PlainKinds == {"null", "object"}
\* every root container of the document is called "a": one per kind, all
\* sharing the identity string
RootNames == {"a"}
NodeIds == 1..MaxNodes
\* the reactions (autorun / reaction) of the application
Reactions == {1, 2}
Values == 0..MaxVal
\* the documents handed to the utility functions
Docs == {"doc", "doc2"}

\* A ContainerID: a root container's name, or the metadata map of a tree node.
RootId(name) == [root |-> name, node |-> 0]
DataId(n) == [root |-> "-", node |-> n]
NoId == [root |-> "-", node |-> 0]
\* the k-th child container inserted into a root container
ChildId(k) == [root |-> "+", node |-> k]
ContainerIDs ==
  {RootId(name) : name \in RootNames} \cup {DataId(n) : n \in NodeIds}
    \cup {ChildId(k) : k \in 1..MaxChildren}

NoRef == 0

\* Values handed to pool.get: containers of any class, or plain data.
Value(t, k, id, r, n, v) == [tag |-> t, kind |-> k, id |-> id, ref |-> r, node |-> n, val |-> v]
ContainerValue(k, id) == Value("container", k, id, NoRef, 0, 0)
PlainValue(p) == Value("plain", p, NoId, NoRef, 0, 0)
NumberValue(v) == Value("plain", "number", NoId, NoRef, 0, v)
WrapperValue(r) == Value("wrapper", "-", NoId, r, 0, 0)
\* a node wrapper: the obj-th node wrapper object made for tree wrapper r
NodeWrapperValue(r, n, obj) == Value("node", "-", NoId, r, n, obj)
NoValue == PlainValue("undefined")

VARIABLES
  scope,      \* the part of the document the application works with
  utils,      \* utils.ts: docPools, and the pools and wrappers made through it
  pool,       \* the ObservableLoroPool: five registries and the doc subscription
  wrappers,   \* every wrapper object ever constructed, by reference
  content,    \* the document: contents of the non-tree containers
  nodes,      \* the document: the tree nodes, by node id
  nested,     \* the document: the child containers held by root containers
  fractional, \* the document: whether tree "a" generates fractional indexes
  pending,    \* the document: event batches not yet delivered
  docOps,     \* number of mutations applied to the document so far
  reactions,  \* MobX: the reactions and the atoms each one observes
  log         \* what the last operation did, in order

vars == <<scope, utils, pool, wrappers, content, nodes, nested, fractional, pending, docOps,
          reactions, log>>

\* --------------------------------------------------------------- helpers
Container(k, id) == [kind |-> k, id |-> id]
ContainerOf(w) == Container(w.kind, w.id)

\* the containers that exist in the document
RootContainers == {Container(k, RootId(name)) : k \in Kinds, name \in RootNames}
DataContainers == {Container("map", DataId(n)) : n \in DOMAIN nodes}
DocContainers == RootContainers \cup DataContainers
ValueContainers == {c \in RootContainers : c.kind # "tree"} \cup
                   {Container("map", DataId(n)) : n \in NodeIds} \cup
                   {Container(k, ChildId(i)) : k \in {"map", "list", "text"},
                                               i \in 1..MaxChildren}

\* the containers that can hold a child container, the kinds of child the
\* application inserts, and a slot: the child, its index (lists), and the
\* wrapper the inserting call returned to the application
Parents == {c \in RootContainers : c.kind \in {"map", "list", "movable"}}
ChildKinds == {"map", "list", "text"}
Indices == 0..MaxIndex
NoChild == [kind |-> "-", id |-> NoId]
NoSlot == [child |-> NoChild, at |-> 0, w |-> NoRef]

\* An atom: a wrapper's own atom is <<ref, 0>>, the atom of the node wrapper
\* that tree wrapper ref caches for node n is <<ref, n>>.
Atom(ref) == <<ref, 0>>
NodeAtom(ref, n) == <<ref, n>>
Atoms == {Atom(r) : r \in DOMAIN wrappers} \cup
         {NodeAtom(r, n) : r \in DOMAIN wrappers, n \in NodeIds}
ExistingAtoms == {Atom(r) : r \in DOMAIN wrappers} \cup
                 UNION {{NodeAtom(r, n) : n \in DOMAIN wrappers[r].nodeWrappers} : r \in DOMAIN wrappers}
NoAtom == <<0, 0>>

RECURSIVE SetToSeq(_)
SetToSeq(S) == IF S = {} THEN <<>>
               ELSE LET x == CHOOSE y \in S : \A z \in S : y <= z
                    IN <<x>> \o SetToSeq(S \ {x})

\* ------------------------------------------------------------------ pool.ts
\* A freshly constructed wrapper: atom unobserved, no subscription handle,
\* no callback of its own registered at the container (active), and (for a
\* tree) an empty node sub-cache (node id -> the node wrapper object and its
\* data wrapper) and a count of the node wrapper objects made for it.
NewWrapper(k, id) ==
  [kind |-> k, id |-> id, unsubscribe |-> FALSE, active |-> 0,
   nodeWrappers |-> <<>>, made |-> 0]

\* S is the heap the pool works on: [pool, wrappers]; a call returns the new
\* heap together with the returned reference.
Result(p, w, r) == [pool |-> p, wrappers |-> w, ret |-> r]

\* getMap without the lookup: constructs and registers on every call
getMap_alwaysConstructs(S, map) ==
  LET observable == Len(S.wrappers) + 1 IN
  Result([S.pool EXCEPT !.maps[map.id] = observable],
         Append(S.wrappers, NewWrapper("map", map.id)),
         WrapperValue(observable))

\* a getMap that refuses once the pool has been disposed
getMap_refusesDisposed(S, map) ==
  LET existing == S.pool.maps[map.id] IN
  IF ~S.pool.unsubscribe THEN Result(S.pool, S.wrappers, NoValue)
  ELSE IF existing # NoRef THEN Result(S.pool, S.wrappers, WrapperValue(existing))
  ELSE LET observable == Len(S.wrappers) + 1 IN
       Result([S.pool EXCEPT !.maps[map.id] = observable],
              Append(S.wrappers, NewWrapper("map", map.id)),
              WrapperValue(observable))

getMap(S, map) ==
  LET existing == S.pool.maps[map.id] IN
  IF existing # NoRef THEN Result(S.pool, S.wrappers, WrapperValue(existing))
  ELSE LET observable == Len(S.wrappers) + 1 IN
       Result([S.pool EXCEPT !.maps[map.id] = observable],
              Append(S.wrappers, NewWrapper("map", map.id)),
              WrapperValue(observable))

\* getTree registering the tree wrapper in the registry of the maps
getTree_inMaps(S, tree) ==
  LET existing == S.pool.maps[tree.id] IN
  IF existing # NoRef THEN Result(S.pool, S.wrappers, WrapperValue(existing))
  ELSE LET observable == Len(S.wrappers) + 1 IN
       Result([S.pool EXCEPT !.maps[tree.id] = observable],
              Append(S.wrappers, NewWrapper("tree", tree.id)),
              WrapperValue(observable))

getTree(S, tree) ==
  LET existing == S.pool.trees[tree.id] IN
  IF existing # NoRef THEN Result(S.pool, S.wrappers, WrapperValue(existing))
  ELSE LET observable == Len(S.wrappers) + 1 IN
       Result([S.pool EXCEPT !.trees[tree.id] = observable],
              Append(S.wrappers, NewWrapper("tree", tree.id)),
              WrapperValue(observable))

getList(S, list) ==
  LET existing == S.pool.lists[list.id] IN
  IF existing # NoRef THEN Result(S.pool, S.wrappers, WrapperValue(existing))
  ELSE LET observable == Len(S.wrappers) + 1 IN
       Result([S.pool EXCEPT !.lists[list.id] = observable],
              Append(S.wrappers, NewWrapper("list", list.id)),
              WrapperValue(observable))

getMovableList(S, movableList) ==
  LET existing == S.pool.movableLists[movableList.id] IN
  IF existing # NoRef THEN Result(S.pool, S.wrappers, WrapperValue(existing))
  ELSE LET observable == Len(S.wrappers) + 1 IN
       Result([S.pool EXCEPT !.movableLists[movableList.id] = observable],
              Append(S.wrappers, NewWrapper("movable", movableList.id)),
              WrapperValue(observable))

getText(S, text) ==
  LET existing == S.pool.texts[text.id] IN
  IF existing # NoRef THEN Result(S.pool, S.wrappers, WrapperValue(existing))
  ELSE LET observable == Len(S.wrappers) + 1 IN
       Result([S.pool EXCEPT !.texts[text.id] = observable],
              Append(S.wrappers, NewWrapper("text", text.id)),
              WrapperValue(observable))

\* value instanceof LoroX
InstanceOf(value, k) == value.tag = "container" /\ value.kind = k

\* get whose last branch returns undefined instead of the value
get_dropsValue(S, value) ==
  IF InstanceOf(value, "map") THEN getMap(S, value)
  ELSE IF InstanceOf(value, "tree") THEN getTree(S, value)
  ELSE IF InstanceOf(value, "movable") THEN getMovableList(S, value)
  ELSE IF InstanceOf(value, "list") THEN getList(S, value)
  ELSE IF InstanceOf(value, "text") THEN getText(S, value)
  ELSE Result(S.pool, S.wrappers, NoValue)

\* ObservableLoroPool.get: the instanceof chain, in the order of the source
get(S, value) ==
  IF InstanceOf(value, "map") THEN getMap(S, value)
  ELSE IF InstanceOf(value, "tree") THEN getTree(S, value)
  ELSE IF InstanceOf(value, "movable") THEN getMovableList(S, value)
  ELSE IF InstanceOf(value, "list") THEN getList(S, value)
  ELSE IF InstanceOf(value, "text") THEN getText(S, value)
  ELSE Result(S.pool, S.wrappers, value)

EmptyRegistry == [id \in ContainerIDs |-> NoRef]

\* clearInstance deleting the identity from every registry
clearInstance_everyKind(p, type, id) ==
  [p EXCEPT !.maps[id] = NoRef, !.trees[id] = NoRef, !.lists[id] = NoRef,
            !.movableLists[id] = NoRef, !.texts[id] = NoRef]

\* a clearInstance that empties the whole registry of the kind
clearInstance_wholeRegistry(p, type, id) ==
  CASE type = "map" -> [p EXCEPT !.maps = EmptyRegistry]
    [] type = "tree" -> [p EXCEPT !.trees = EmptyRegistry]
    [] type = "list" -> [p EXCEPT !.lists = EmptyRegistry]
    [] type = "movable" -> [p EXCEPT !.movableLists = EmptyRegistry]
    [] type = "text" -> [p EXCEPT !.texts = EmptyRegistry]
    [] OTHER -> p

clearInstance(p, type, id) ==
  CASE type = "map" -> [p EXCEPT !.maps[id] = NoRef]
    [] type = "tree" -> [p EXCEPT !.trees[id] = NoRef]
    [] type = "list" -> [p EXCEPT !.lists[id] = NoRef]
    [] type = "movable" -> [p EXCEPT !.movableLists[id] = NoRef]
    [] type = "text" -> [p EXCEPT !.texts[id] = NoRef]
    [] OTHER -> p

clearAll(p) ==
  [p EXCEPT !.maps = EmptyRegistry, !.trees = EmptyRegistry, !.lists = EmptyRegistry,
            !.movableLists = EmptyRegistry, !.texts = EmptyRegistry]

RegistrySize(reg) == Cardinality({id \in ContainerIDs : reg[id] # NoRef})

size(p) ==
  RegistrySize(p.maps) + RegistrySize(p.trees) + RegistrySize(p.lists)
    + RegistrySize(p.movableLists) + RegistrySize(p.texts)

\* a has that answers from whichever registry holds the identity
has_anyRegistry(p, type, id) ==
  p.maps[id] # NoRef \/ p.trees[id] # NoRef \/ p.lists[id] # NoRef
    \/ p.movableLists[id] # NoRef \/ p.texts[id] # NoRef

has(p, type, id) ==
  CASE type = "map" -> p.maps[id] # NoRef
    [] type = "tree" -> p.trees[id] # NoRef
    [] type = "list" -> p.lists[id] # NoRef
    [] type = "movable" -> p.movableLists[id] # NoRef
    [] type = "text" -> p.texts[id] # NoRef
    [] OTHER -> FALSE

\* a dispose that never forgets the document-level subscription handle
dispose_keepsHandle(p) == clearAll(p)

\* dispose: unsubscribe the document-level subscription once, then clearAll
dispose(p) == clearAll([p EXCEPT !.unsubscribe = FALSE])

\* the registry of one kind, and the (kind, id) a reference is cached under
Registry(p, k) ==
  CASE k = "map" -> p.maps
    [] k = "tree" -> p.trees
    [] k = "list" -> p.lists
    [] k = "movable" -> p.movableLists
    [] k = "text" -> p.texts

Cached(p, ref) == \E k \in Kinds, id \in ContainerIDs : Registry(p, k)[id] = ref

\* ----------------------------------------------------------------- utils.ts
\* new ObservableLoroPool(doc): empty registries, subscribed to the document
ObservableLoroPool(doc) ==
  [maps |-> EmptyRegistry, trees |-> EmptyRegistry, lists |-> EmptyRegistry,
   movableLists |-> EmptyRegistry, texts |-> EmptyRegistry,
   unsubscribe |-> TRUE, doc |-> doc]

\* U is the module state: docPools (document -> pool), the pools it has
\* constructed, the wrappers those pools have constructed and, for each
\* wrapper, its pool field
\* a getPool that constructs a pool on every call
getPool_alwaysNew(U, doc) ==
  [utils |-> [U EXCEPT !.pools = Append(@, ObservableLoroPool(doc)),
                       !.docPools[doc] = Len(U.pools) + 1],
   pool |-> Len(U.pools) + 1]

getPool(U, doc) ==
  IF U.docPools[doc] # NoRef THEN [utils |-> U, pool |-> U.docPools[doc]]
  ELSE [utils |-> [U EXCEPT !.pools = Append(@, ObservableLoroPool(doc)),
                            !.docPools[doc] = Len(U.pools) + 1],
        pool |-> Len(U.pools) + 1]

\* getMap / getList / getTree / getMovableList / getText (doc, key):
\* getPool(doc).get(doc.getX(key)); a wrapper the pool constructs keeps
\* that pool in its pool field
docGet(U, doc, k, key) ==
  LET P == getPool(U, doc)
      G == get([pool |-> P.utils.pools[P.pool], wrappers |-> P.utils.wrappers],
               ContainerValue(k, RootId(key)))
  IN [utils |-> [P.utils EXCEPT !.pools[P.pool] = G.pool,
                                !.wrappers = G.wrappers,
                                !.owner = IF Len(G.wrappers) > Len(@)
                                          THEN Append(@, P.pool) ELSE @],
      ret |-> G.ret]

\* a disposePool that leaves the disposed pool in docPools
disposePool_keepsEntry(U, doc) ==
  IF U.docPools[doc] # NoRef
  THEN [U EXCEPT !.pools[U.docPools[doc]] = dispose(@)]
  ELSE U

disposePool(U, doc) ==
  IF U.docPools[doc] # NoRef
  THEN [U EXCEPT !.pools[U.docPools[doc]] = dispose(@), !.docPools[doc] = NoRef]
  ELSE U

\* --------------------------------------------------- the document (Loro)
TreeNodes(nds, id) == {n \in DOMAIN nds : nds[n].tree = id}

RECURSIVE AncestorsOf(_, _)
AncestorsOf(nds, n) ==
  IF nds[n].parent = 0 THEN {} ELSE {nds[n].parent} \cup AncestorsOf(nds, nds[n].parent)

\* LoroTreeNode.isDeleted: the node or one of its ancestors was deleted
IsDeleted(nds, n) == \E m \in {n} \cup AncestorsOf(nds, n) : nds[m].deleted

\* what the reads of a node return (parent, index, isDeleted, ...)
NodeView(nds, n) == <<nds[n].parent, IsDeleted(nds, n)>>
\* what the reads of a tree return (roots, getNodes, toArray, ...)
TreeView(nds, id) == {<<n, nds[n].parent, IsDeleted(nds, n)>> : n \in TreeNodes(nds, id)}

\* X is the state a call runs in: the pool, the reactions, the document
\* (content, nodes) and the wrappers
State(p, R, cont, nds, wr) ==
  [pool |-> p, reactions |-> R, content |-> cont, nodes |-> nds, wrappers |-> wr]

\* what the underlying container (or node) behind one atom holds in X
ViewOf(X, atom) ==
  IF atom[2] # 0 THEN NodeView(X.nodes, atom[2])
  ELSE IF X.wrappers[atom[1]].kind = "tree" THEN TreeView(X.nodes, X.wrappers[atom[1]].id)
  ELSE X.content[ContainerOf(X.wrappers[atom[1]])]

\* an event batch: the container that changed and the origin (event.by)
Event(c, by) == [target |-> c, by |-> by]

\* events bubble: a subscription on a container also receives the events of
\* the containers nested in it (a node's metadata map lies in the node's tree)
EventPath(nds, c) ==
  {c} \cup (IF c.id.root = "-" /\ c.id.node \in DOMAIN nds
            THEN {Container("tree", nds[c.id.node].tree)} ELSE {})

\* ------------------------------------------------------- wrapper reads
\* Each read reports the atom observed (an effect only inside a tracked
\* computation, see CreateReaction) and delegates to the container.
\* a map wrapper that answers from the value it saw when it was constructed
\* on the empty document
mapGet_initial(X, ref) == 0

\* ObservableLoroMap.get: the stored value goes through pool.get
mapGet(X, ref) ==
  get([pool |-> X.pool, wrappers |-> X.wrappers],
      NumberValue(X.content[ContainerOf(X.wrappers[ref])])).ret.val
\* ObservableLoroList.get / toArray: the elements go through pool.get
listGet(X, ref) ==
  get([pool |-> X.pool, wrappers |-> X.wrappers],
      NumberValue(X.content[ContainerOf(X.wrappers[ref])])).ret.val
\* ObservableMovableList.get / toArray: the elements go through pool.get
movableListGet(X, ref) ==
  get([pool |-> X.pool, wrappers |-> X.wrappers],
      NumberValue(X.content[ContainerOf(X.wrappers[ref])])).ret.val
\* ObservableLoroText.toString / length / toDelta
textToString(X, ref) == X.content[ContainerOf(X.wrappers[ref])]
\* ObservableLoroTree.toArray / toJSON / has / isNodeDeleted
treeToArray(X, ref) == TreeView(X.nodes, X.wrappers[ref].id)
\* ObservableLoroTreeNode.parent / index / isDeleted
nodeIsDeleted(X, ref, n) == NodeView(X.nodes, n)

\* the read behind one atom, by kind of wrapper
read(X, atom) ==
  IF atom[2] # 0 THEN nodeIsDeleted(X, atom[1], atom[2])
  ELSE CASE X.wrappers[atom[1]].kind = "map" -> mapGet(X, atom[1])
         [] X.wrappers[atom[1]].kind = "list" -> listGet(X, atom[1])
         [] X.wrappers[atom[1]].kind = "movable" -> movableListGet(X, atom[1])
         [] X.wrappers[atom[1]].kind = "text" -> textToString(X, atom[1])
         [] X.wrappers[atom[1]].kind = "tree" -> treeToArray(X, atom[1])

\* ------------------------------------------------------------ MobX atoms
Entry(e, atom, r, saw) == [e |-> e, atom |-> atom, r |-> r, saw |-> saw]

Observers(R, atom) == {r \in Reactions : R[r].live /\ atom \in R[r].deps}

\* atom.reportChanged() for each atom of the sequence, in one batch: at the
\* end of the batch every reaction observing one of them runs once and reads
\* what it depends on, in the state X
ReportChanged(X, atoms) ==
  LET rs == SetToSeq({r \in Reactions : \E i \in DOMAIN atoms : r \in Observers(X.reactions, atoms[i])})
  IN [i \in DOMAIN atoms |-> Entry("changed", atoms[i], 0, 0)] \o
     [i \in DOMAIN rs |-> Entry("run", NoAtom, rs[i],
                                [a \in X.reactions[rs[i]].deps |-> read(X, a)])]

\* the reactions after the runs a log records: each keeps what its last run saw
Rerun(R, lg) ==
  [r \in Reactions |->
     IF \E i \in DOMAIN lg : lg[i].e = "run" /\ lg[i].r = r
     THEN [R[r] EXCEPT !.saw = lg[CHOOSE i \in DOMAIN lg : lg[i].e = "run" /\ lg[i].r = r].saw]
     ELSE R[r]]

\* ------------------------------------ map.ts, list.ts, movable-list.ts, text.ts
\* a handleMapChange on an atom shared by every wrapper of the container
handleMapChange_perContainer(X, ref) ==
  LET all == SetToSeq({r \in DOMAIN X.wrappers :
                         ContainerOf(X.wrappers[r]) = ContainerOf(X.wrappers[ref])})
  IN ReportChanged(X, [i \in DOMAIN all |-> Atom(all[i])])

handleMapChange(X, ref) == ReportChanged(X, <<Atom(ref)>>)
\* a handleListChange that signals only when an observer's reads changed
handleListChange_fineGrained(X, ref) ==
  IF \A r \in Observers(X.reactions, Atom(ref)) :
       X.reactions[r].saw = [a \in X.reactions[r].deps |-> read(X, a)]
  THEN <<>>
  ELSE ReportChanged(X, <<Atom(ref)>>)

handleListChange(X, ref) == ReportChanged(X, <<Atom(ref)>>)
handleTextChange(X, ref) == ReportChanged(X, <<Atom(ref)>>)

\* ---------------------------------------------------------------- tree.ts
CachedNodes(X, ref) == SetToSeq(DOMAIN X.wrappers[ref].nodeWrappers)

\* reportChanged for each atom in a batch of its own
RECURSIVE EachAlone(_, _)
EachAlone(X, atoms) ==
  IF atoms = <<>> THEN <<>>
  ELSE ReportChanged(X, <<Head(atoms)>>) \o EachAlone(X, Tail(atoms))

\* a handleChange without the runInAction around its reportChanged calls
handleChange_unbatched(X, ref) ==
  EachAlone(X, <<Atom(ref)>> \o
               [i \in DOMAIN CachedNodes(X, ref) |-> NodeAtom(ref, CachedNodes(X, ref)[i])])

\* a handleChange that reports the tree atom alone
handleChange_treeOnly(X, ref) == ReportChanged(X, <<Atom(ref)>>)

\* ObservableLoroTree.handleChange: the tree atom and every cached node atom
handleChange(X, ref) ==
  ReportChanged(X, <<Atom(ref)>> \o
                   [i \in DOMAIN CachedNodes(X, ref) |-> NodeAtom(ref, CachedNodes(X, ref)[i])])

\* ObservableLoroTree.handleRemoteChange: both branches of the loop report
handleRemoteChange(X, ref) ==
  ReportChanged(X, <<Atom(ref)>> \o
                   [i \in DOMAIN CachedNodes(X, ref) |-> NodeAtom(ref, CachedNodes(X, ref)[i])])

\* the callback with the origin test inverted
subscribeCallback_localOnly(X, ref, event) ==
  IF event.by = "local"
  THEN CASE X.wrappers[ref].kind = "tree" -> handleRemoteChange(X, ref)
         [] OTHER -> ReportChanged(X, <<Atom(ref)>>)
  ELSE <<>>

\* the callback without the origin test
subscribeCallback_everyOrigin(X, ref, event) ==
  CASE X.wrappers[ref].kind = "tree" -> handleRemoteChange(X, ref)
    [] OTHER -> ReportChanged(X, <<Atom(ref)>>)

\* the callback with an origin test that lets local batches through
subscribeCallback_notCheckout(X, ref, event) ==
  IF event.by # "checkout"
  THEN CASE X.wrappers[ref].kind = "tree" -> handleRemoteChange(X, ref)
         [] OTHER -> ReportChanged(X, <<Atom(ref)>>)
  ELSE <<>>

\* the callback a wrapper hands to container.subscribe
subscribeCallback(X, ref, event) ==
  IF event.by # "local"
  THEN CASE X.wrappers[ref].kind = "map" -> handleMapChange(X, ref)
         [] X.wrappers[ref].kind = "list" -> handleListChange(X, ref)
         [] X.wrappers[ref].kind = "movable" -> handleListChange(X, ref)
         [] X.wrappers[ref].kind = "text" -> handleTextChange(X, ref)
         [] X.wrappers[ref].kind = "tree" -> handleRemoteChange(X, ref)
  ELSE <<>>

\* the atom's first-observer hook: subscribe unless a handle is held
onBecomeObserved(w) ==
  IF ~w.unsubscribe THEN [w EXCEPT !.unsubscribe = TRUE, !.active = @ + 1] ELSE w
\* a last-observer hook that keeps the subscription
onBecomeUnobserved_keeps(w) == w
\* a last-observer hook that forgets the handle without invoking it
onBecomeUnobserved_forgets(w) == [w EXCEPT !.unsubscribe = FALSE]
\* a last-observer hook that invokes the handle without testing it
onBecomeUnobserved_unguarded(w) == [w EXCEPT !.unsubscribe = FALSE, !.active = @ - 1]

\* the atom's last-observer hook: invoke the handle if one is held, forget it
onBecomeUnobserved(w) ==
  IF w.unsubscribe THEN [w EXCEPT !.unsubscribe = FALSE, !.active = @ - 1] ELSE w

\* a node wrapper constructor that wraps node.data itself, past the pool
ObservableLoroTreeNode_ownData(S, ref, n) ==
  LET obj == S.wrappers[ref].made + 1
      made == Append(S.wrappers, NewWrapper("map", DataId(n)))
  IN Result(S.pool, [made EXCEPT ![ref].made = obj], [obj |-> obj, data |-> Len(made)])

\* new ObservableLoroTreeNode(node, tree, pool): one more node wrapper object
\* for tree wrapper ref; the constructor resolves node.data through the pool
ObservableLoroTreeNode(S, ref, n) ==
  LET G == get(S, ContainerValue("map", DataId(n)))
      obj == S.wrappers[ref].made + 1
  IN Result(G.pool, [G.wrappers EXCEPT ![ref].made = obj], [obj |-> obj, data |-> G.ret.ref])

\* what a constructor call that threw leaves: no object
NoObject == [obj |-> 0, data |-> NoRef]

\* a constructor without the guard: with no pool it makes an object that has
\* no data
constructor_unguarded(S, ref, n, withPool) ==
  IF withPool THEN ObservableLoroTreeNode(S, ref, n)
  ELSE Result(S.pool, [S.wrappers EXCEPT ![ref].made = @ + 1],
              [obj |-> S.wrappers[ref].made + 1, data |-> NoRef])

\* the constructor as application code can call it, with a pool or with
\* null / undefined: the guard throws before node.data is resolved
constructor(S, ref, n, withPool) ==
  IF ~withPool THEN Result(S.pool, S.wrappers, NoObject)
  ELSE ObservableLoroTreeNode(S, ref, n)

\* a sub-cache that holds the node wrapper made last and no other
CacheSet_onlyNewest(cache, n, object) == [m \in {n} |-> object]

\* the sub-cache with node n set to a node wrapper object
CacheSet(cache, n, object) ==
  [m \in DOMAIN cache \cup {n} |-> IF m = n THEN object ELSE cache[m]]

\* a wrapNode that constructs a node wrapper on every call
wrapNode_alwaysConstructs(S, ref, n) ==
  LET N == ObservableLoroTreeNode(S, ref, n)
  IN Result(N.pool,
            [N.wrappers EXCEPT ![ref].nodeWrappers = CacheSet(S.wrappers[ref].nodeWrappers, n, N.ret)],
            NodeWrapperValue(ref, n, N.ret.obj))

\* ObservableLoroTree.wrapNode: reuse the cached node wrapper or construct
\* one and cache it
wrapNode(S, ref, n) ==
  IF n \in DOMAIN S.wrappers[ref].nodeWrappers
  THEN Result(S.pool, S.wrappers, NodeWrapperValue(ref, n, S.wrappers[ref].nodeWrappers[n].obj))
  ELSE LET N == ObservableLoroTreeNode(S, ref, n)
       IN Result(N.pool,
                 [N.wrappers EXCEPT ![ref].nodeWrappers = CacheSet(S.wrappers[ref].nodeWrappers, n, N.ret)],
                 NodeWrapperValue(ref, n, N.ret.obj))

\* nodes.map((node) => this.wrapNode(node))
RECURSIVE wrapNodes(_, _, _)
wrapNodes(S, ref, ns) ==
  IF ns = <<>> THEN Result(S.pool, S.wrappers, <<>>)
  ELSE LET G == wrapNode(S, ref, Head(ns))
           H == wrapNodes([pool |-> G.pool, wrappers |-> G.wrappers], ref, Tail(ns))
       IN Result(H.pool, H.wrappers, <<G.ret>> \o H.ret)

\* what the underlying tree and nodes answer
LiveNodes(nds, id) == {n \in TreeNodes(nds, id) : ~IsDeleted(nds, n)}
Roots(nds, id) == {n \in LiveNodes(nds, id) : nds[n].parent = 0}
Children(nds, n) == {m \in LiveNodes(nds, nds[n].tree) : nds[m].parent = n}

\* ObservableLoroTree.getNodeByID / getNodes / roots and
\* ObservableLoroTreeNode.parent / children: every node found is wrapped
getNodeByID(S, nds, ref, target) ==
  IF target \in TreeNodes(nds, S.wrappers[ref].id)
  THEN wrapNodes(S, ref, <<target>>)
  ELSE Result(S.pool, S.wrappers, <<>>)
\* a getNodes that empties the sub-cache before it wraps what it found
getNodes_rebuilds(S, nds, ref) ==
  wrapNodes([pool |-> S.pool, wrappers |-> [S.wrappers EXCEPT ![ref].nodeWrappers = <<>>]],
            ref, SetToSeq(LiveNodes(nds, S.wrappers[ref].id)))
getNodes(S, nds, ref) == wrapNodes(S, ref, SetToSeq(LiveNodes(nds, S.wrappers[ref].id)))
roots(S, nds, ref) == wrapNodes(S, ref, SetToSeq(Roots(nds, S.wrappers[ref].id)))
nodeParent(S, nds, ref, n) ==
  IF nds[n].parent = 0 THEN Result(S.pool, S.wrappers, <<>>)
  ELSE wrapNodes(S, ref, <<nds[n].parent>>)
nodeChildren(S, nds, ref, n) == wrapNodes(S, ref, SetToSeq(Children(nds, n)))

\* -------------------------------------------------- wrapper write methods
\* Each returns the document after the call and what the call did, in order:
\* the delegation to the underlying container, then the notification.
Written(cont, nds, lg) == [content |-> cont, nodes |-> nds, log |-> lg]
Apply(ref) == Entry("apply", Atom(ref), 0, 0)
With(X, cont, nds) == State(X.pool, X.reactions, cont, nds, X.wrappers)
\* the underlying container rejected the call: the error leaves the wrapper
\* method at the delegate's line
Thrown(X, ref) == Written(X.content, X.nodes, <<Entry("throw", Atom(ref), 0, 0)>>)
Threw(W) == W.log # <<>> /\ W.log[1].e = "throw"
\* an index past the end of the list or text
OutOfBounds == MaxVal + 1

\* a set that also signals the wrappers of the containers the written map
\* lies in
mapSet_bubbles(X, ref, v) ==
  LET c == ContainerOf(X.wrappers[ref])
      cont == [X.content EXCEPT ![c] = v]
      up == SetToSeq({r \in DOMAIN X.wrappers :
                        ContainerOf(X.wrappers[r]) \in EventPath(X.nodes, c)})
  IN Written(cont, X.nodes,
             <<Apply(ref)>> \o ReportChanged(With(X, cont, X.nodes),
                                             [i \in DOMAIN up |-> Atom(up[i])]))

\* set notifying before it delegates
mapSet_notifiesFirst(X, ref, v) ==
  LET cont == [X.content EXCEPT ![ContainerOf(X.wrappers[ref])] = v]
  IN Written(cont, X.nodes, handleMapChange(X, ref) \o <<Apply(ref)>>)

\* ObservableLoroMap.set / delete / clear
mapSet(X, ref, v) ==
  LET cont == [X.content EXCEPT ![ContainerOf(X.wrappers[ref])] = v]
  IN Written(cont, X.nodes, <<Apply(ref)>> \o handleMapChange(With(X, cont, X.nodes), ref))

\* ObservableLoroList.insert / delete / push
listInsert(X, ref, v) ==
  LET cont == [X.content EXCEPT ![ContainerOf(X.wrappers[ref])] = v]
  IN IF v = OutOfBounds THEN Thrown(X, ref)
     ELSE Written(cont, X.nodes, <<Apply(ref)>> \o handleListChange(With(X, cont, X.nodes), ref))

\* ObservableMovableList.insert / delete / push / set / move
movableListMove(X, ref, v) ==
  LET cont == [X.content EXCEPT ![ContainerOf(X.wrappers[ref])] = v]
  IN IF v = OutOfBounds THEN Thrown(X, ref)
     ELSE Written(cont, X.nodes, <<Apply(ref)>> \o handleListChange(With(X, cont, X.nodes), ref))

\* insert without the reportChanged
textInsert_silent(X, ref, v) ==
  LET cont == [X.content EXCEPT ![ContainerOf(X.wrappers[ref])] = v]
  IN Written(cont, X.nodes, <<Apply(ref)>>)

\* ObservableLoroText.insert / delete / applyDelta
textInsert(X, ref, v) ==
  LET cont == [X.content EXCEPT ![ContainerOf(X.wrappers[ref])] = v]
  IN IF v = OutOfBounds THEN Thrown(X, ref)
     ELSE Written(cont, X.nodes, <<Apply(ref)>> \o ReportChanged(With(X, cont, X.nodes), <<Atom(ref)>>))

\* ---------------------------------------------------- nested containers
\* the document after a new container of kind k was put into parent c at
\* index at (a map has one key, index 0)
Attach(nst, c, k, at) ==
  [made |-> nst.made + 1,
   slot |-> [nst.slot EXCEPT ![c] = [child |-> Container(k, ChildId(nst.made + 1)),
                                     at |-> at, w |-> NoRef]]]

\* what a container-inserting write did: the document, the notifications,
\* and G, the pool.get of the attached child that it returns
Inserted(nst, lg, G) ==
  [nested |-> nst, log |-> lg, pool |-> G.pool, wrappers |-> G.wrappers, ret |-> G.ret]

\* a pushContainer that wraps the child itself instead of asking the pool
listPushContainer_ownWrapper(X, nst, ref, k, at) ==
  LET c == ContainerOf(X.wrappers[ref])
      doc == Attach(nst, c, k, at)
      made == Append(X.wrappers, NewWrapper(k, doc.slot[c].child.id))
  IN Inserted(doc, <<Apply(ref)>> \o handleListChange(X, ref),
              Result(X.pool, made, WrapperValue(Len(made))))

\* ObservableLoroList / ObservableMovableList insertContainer, pushContainer
\* (and the movable list's setContainer)
listPushContainer(X, nst, ref, k, at) ==
  LET c == ContainerOf(X.wrappers[ref])
      doc == Attach(nst, c, k, at)
  IN Inserted(doc, <<Apply(ref)>> \o handleListChange(X, ref),
              get([pool |-> X.pool, wrappers |-> X.wrappers],
                  ContainerValue(k, doc.slot[c].child.id)))

\* ObservableLoroMap.setContainer
mapSetContainer(X, nst, ref, k) ==
  LET c == ContainerOf(X.wrappers[ref])
      doc == Attach(nst, c, k, 0)
  IN Inserted(doc, <<Apply(ref)>> \o handleMapChange(X, ref),
              get([pool |-> X.pool, wrappers |-> X.wrappers],
                  ContainerValue(k, doc.slot[c].child.id)))

\* ObservableLoroMap.getOrCreateContainer: a container already at the key is
\* kept and returned
mapGetOrCreateContainer(X, nst, ref, k) ==
  LET c == ContainerOf(X.wrappers[ref])
      doc == IF nst.slot[c].child = NoChild THEN Attach(nst, c, k, 0) ELSE nst
  IN Inserted(doc, <<Apply(ref)>> \o handleMapChange(X, ref),
              get([pool |-> X.pool, wrappers |-> X.wrappers],
                  ContainerValue(doc.slot[c].child.kind, doc.slot[c].child.id)))

\* the index of the element at index at after move(from, to)
MovedIndex(at, from, to) ==
  IF at = from THEN to
  ELSE IF from < at /\ at <= to THEN at - 1
  ELSE IF to <= at /\ at < from THEN at + 1
  ELSE at

\* ObservableMovableList.move(fromIndex, toIndex) on a list holding a child
movableListMoveItem(X, nst, ref, from, to) ==
  LET c == ContainerOf(X.wrappers[ref])
  IN [nested |-> [nst EXCEPT !.slot[c].at = MovedIndex(@, from, to)],
      log |-> <<Apply(ref)>> \o handleListChange(X, ref)]

\* what the underlying list (index i) or map (its key) holds
ElementAt(nst, cont, c, i) ==
  IF nst.slot[c].child # NoChild /\ nst.slot[c].at = i
  THEN ContainerValue(nst.slot[c].child.kind, nst.slot[c].child.id)
  ELSE NumberValue(cont[c])

\* ObservableLoroList / ObservableMovableList get(i) and toArray()[i]
listGetAt(S, nst, cont, ref, i) ==
  get(S, ElementAt(nst, cont, ContainerOf(S.wrappers[ref]), i))

\* ObservableLoroMap.get(key)
mapGetKey(S, nst, cont, ref) ==
  get(S, ElementAt(nst, cont, ContainerOf(S.wrappers[ref]), 0))

NewNode(id, parent) == [tree |-> id, parent |-> parent, deleted |-> FALSE]

\* the structural edits the underlying tree accepts
CanCreate(nds, id, parent) ==
  /\ Len(nds) < MaxNodes
  /\ IF parent = 0 THEN TRUE ELSE parent \in TreeNodes(nds, id) /\ ~IsDeleted(nds, parent)
CanMove(nds, id, target, parent) ==
  /\ target \in TreeNodes(nds, id) /\ ~IsDeleted(nds, target)
  /\ IF parent = 0 THEN TRUE ELSE parent \in TreeNodes(nds, id) /\ ~IsDeleted(nds, parent)
  /\ parent # target /\ parent # nds[target].parent
  /\ IF parent = 0 THEN TRUE ELSE target \notin AncestorsOf(nds, parent)
CanDelete(nds, id, target) == target \in TreeNodes(nds, id) /\ ~IsDeleted(nds, target)

\* the structural edits the underlying tree rejects with an error: a parent
\* or target that is missing or deleted, a move that would close a cycle
Missing(nds, id, n) == IF n \in TreeNodes(nds, id) THEN IsDeleted(nds, n) ELSE TRUE
RejectsCreate(nds, id, parent) == IF parent = 0 THEN FALSE ELSE Missing(nds, id, parent)
RejectsMove(nds, id, target, parent) ==
  IF Missing(nds, id, target) THEN TRUE
  ELSE IF parent = 0 THEN FALSE
  ELSE IF Missing(nds, id, parent) THEN TRUE
  ELSE parent = target \/ target \in AncestorsOf(nds, parent)
RejectsDelete(nds, id, target) == Missing(nds, id, target)

\* ObservableLoroTree.createNode / ObservableLoroTreeNode.createNode (before
\* the wrapNode of the new node)
treeCreateNode(X, ref, parent) ==
  LET nds == Append(X.nodes, NewNode(X.wrappers[ref].id, parent))
  IN IF RejectsCreate(X.nodes, X.wrappers[ref].id, parent) THEN Thrown(X, ref)
     ELSE Written(X.content, nds, <<Apply(ref)>> \o handleChange(With(X, X.content, nds), ref))

\* a move that notifies whether or not the underlying tree took it
treeMove_notifiesAnyway(X, ref, target, parent) ==
  LET nds == [X.nodes EXCEPT ![target].parent = parent]
  IN IF RejectsMove(X.nodes, X.wrappers[ref].id, target, parent)
     THEN Written(X.content, X.nodes, Thrown(X, ref).log \o handleChange(X, ref))
     ELSE Written(X.content, nds, <<Apply(ref)>> \o handleChange(With(X, X.content, nds), ref))

\* ObservableLoroTree.move / ObservableLoroTreeNode.move, moveAfter, moveBefore
treeMove(X, ref, target, parent) ==
  LET nds == [X.nodes EXCEPT ![target].parent = parent]
  IN IF RejectsMove(X.nodes, X.wrappers[ref].id, target, parent) THEN Thrown(X, ref)
     ELSE Written(X.content, nds, <<Apply(ref)>> \o handleChange(With(X, X.content, nds), ref))

\* ObservableLoroTree.delete
treeDelete(X, ref, target) ==
  LET nds == [X.nodes EXCEPT ![target].deleted = TRUE]
  IN IF RejectsDelete(X.nodes, X.wrappers[ref].id, target) THEN Thrown(X, ref)
     ELSE Written(X.content, nds, <<Apply(ref)>> \o handleChange(With(X, X.content, nds), ref))

\* an enableFractionalIndex that notifies as the structural writes do
enableFractionalIndex_notifies(X, ref) ==
  <<Entry("setting", Atom(ref), 0, TRUE)>> \o handleChange(X, ref)

\* ObservableLoroTree.enableFractionalIndex(jitter): the delegation, and
\* nothing after it
enableFractionalIndex(X, ref) == <<Entry("setting", Atom(ref), 0, TRUE)>>

\* ObservableLoroTree.disableFractionalIndex()
disableFractionalIndex(X, ref) == <<Entry("setting", Atom(ref), 0, FALSE)>>

\* ObservableLoroTree.isFractionalIndexEnabled(): reportObserved, then the
\* underlying tree's answer
isFractionalIndexEnabled(f) == f

\* ------------------------------------------------------------ the system
Heap == [pool |-> pool, wrappers |-> wrappers]
Here == State(pool, reactions, content, nodes, wrappers)

\* the document the pool is constructed on already holds tree "a" with a
\* root node and one child
InitialNodes == <<NewNode(RootId("a"), 0), NewNode(RootId("a"), 1)>>

\* An application works either with the root containers as such (the tree
\* wrapper included, but not its nodes) or with the tree "a", its nodes and
\* their metadata maps.
Scopes == {"roots", "tree"}
\* A third application works with the tree "a" and its nodes alone and may
\* hold one wrapper more.
TreeScopes == {"tree", "nodes"}
\* A fourth application works with the root map, list and movable list and
\* the containers it nests in them; it makes one document operation more.
WrapperCap == IF scope \in {"nodes", "nested", "utils"} THEN MaxWrappers + 1 ELSE MaxWrappers
OpCap == IF scope = "nested" THEN MaxDocOps + 1 ELSE MaxDocOps
InScope(c) ==
  IF scope = "roots" THEN c \in RootContainers
  ELSE IF scope = "nested" THEN c \in Parents
  ELSE c = Container("tree", RootId("a")) \/ c \in DataContainers

\* the reactions the application of a scope creates
ReactionsIn(sc) == IF sc = "roots" THEN Reactions ELSE {1}

Start(sc) ==
  /\ scope = sc
  /\ utils = [docPools |-> [d \in Docs |-> NoRef], pools |-> <<>>,
              wrappers |-> <<>>, owner |-> <<>>]
  /\ pool = [maps |-> EmptyRegistry, trees |-> EmptyRegistry, lists |-> EmptyRegistry,
             movableLists |-> EmptyRegistry, texts |-> EmptyRegistry,
             unsubscribe |-> TRUE]
  /\ wrappers = <<>>
  /\ content = [c \in ValueContainers |-> 0]
  /\ nodes = InitialNodes
  /\ nested = [made |-> 0, slot |-> [c \in Parents |-> NoSlot]]
  /\ fractional = TRUE
  /\ pending = <<>>
  /\ docOps = 0
  /\ reactions = [r \in Reactions |-> [live |-> FALSE, deps |-> {}, saw |-> <<>>]]
  /\ log = <<>>

Init == \E sc \in Scopes : Start(sc)
InitTree == Start("nodes")
InitNested == Start("nested")
InitUtils == Start("utils")

\* the values the application hands to pool.get
GetInputs ==
  {ContainerValue(c.kind, c.id) : c \in {d \in DocContainers : InScope(d)}}
    \cup {ContainerValue(k, RootId("a")) : k \in OtherKinds}
    \cup {PlainValue(p) : p \in PlainKinds}

\* pool.get(value)
Get(value) ==
  LET G == get(Heap, value) IN
  /\ Len(G.wrappers) <= WrapperCap
  /\ pool' = G.pool
  /\ wrappers' = G.wrappers
  /\ log' = <<Entry("get", NoAtom, 0, [value |-> value, ret |-> G.ret])>>
  /\ UNCHANGED <<scope, utils, fractional, nested, content, nodes, pending, docOps, reactions>>

\* the (type, id) pairs the application hands to clearInstance
ClearInputs ==
  {d \in DocContainers : InScope(d)} \cup {Container(k, RootId("a")) : k \in OtherKinds}

\* pool.clearInstance(type, id)
ClearInstance(type, id) ==
  /\ pool' = clearInstance(pool, type, id)
  /\ log' = <<Entry("clearInstance", NoAtom, 0, has(pool, type, id))>>
  /\ UNCHANGED <<scope, utils, fractional, nested, wrappers, content, nodes, pending, docOps, reactions>>

\* pool.clearAll()
ClearAll ==
  /\ pool' = clearAll(pool)
  /\ log' = <<>>
  /\ UNCHANGED <<scope, utils, fractional, nested, wrappers, content, nodes, pending, docOps, reactions>>

\* pool.dispose()
Dispose ==
  /\ pool' = dispose(pool)
  /\ log' = <<Entry("dispose", NoAtom, 0, 0)>>
               \o (IF pool.unsubscribe THEN <<Entry("docUnsubscribe", NoAtom, 0, 0)>> ELSE <<>>)
  /\ UNCHANGED <<scope, utils, fractional, nested, wrappers, content, nodes, pending, docOps, reactions>>

\* autorun / reaction: the first run reads the atoms in deps (atoms of one
\* wrapper: its own, its node wrappers') inside a tracked computation; an
\* atom that gains its first observer fires onBecomeObserved
CreateReaction(r, deps) ==
  /\ r \in ReactionsIn(scope)
  /\ ~reactions[r].live
  /\ deps \subseteq ExistingAtoms
  /\ Cardinality(deps) \in 1..MaxDeps
  /\ \A a, b \in deps : a[1] = b[1]
  /\ LET R == [reactions EXCEPT ![r] = [live |-> TRUE, deps |-> deps,
                                       saw |-> [a \in deps |-> read(Here, a)]]]
         first == {ref \in DOMAIN wrappers :
                     Atom(ref) \in deps /\ Observers(reactions, Atom(ref)) = {}}
         wr == [ref \in DOMAIN wrappers |->
                  IF ref \in first THEN onBecomeObserved(wrappers[ref]) ELSE wrappers[ref]]
         subs == SetToSeq({ref \in first : wr[ref].active > wrappers[ref].active})
     IN /\ reactions' = R
        /\ wrappers' = wr
        /\ log' = [i \in DOMAIN subs |-> Entry("subscribe", Atom(subs[i]), 0, 0)] \o
                  <<Entry("run", NoAtom, r, [a \in deps |-> read(Here, a)])>>
  /\ UNCHANGED <<scope, utils, fractional, nested, pool, content, nodes, pending, docOps>>

\* the reaction's disposer: an atom that loses its last observer fires
\* onBecomeUnobserved
DisposeReaction(r) ==
  /\ reactions[r].live
  /\ LET R == [reactions EXCEPT ![r] = [live |-> FALSE, deps |-> {}, saw |-> <<>>]]
         last == {ref \in DOMAIN wrappers :
                    Atom(ref) \in reactions[r].deps /\ Observers(R, Atom(ref)) = {}}
         wr == [ref \in DOMAIN wrappers |->
                  IF ref \in last THEN onBecomeUnobserved(wrappers[ref]) ELSE wrappers[ref]]
         unsubs == SetToSeq({ref \in last : wr[ref].active < wrappers[ref].active})
     IN /\ reactions' = R
        /\ wrappers' = wr
        /\ log' = [i \in DOMAIN unsubs |-> Entry("unsubscribe", Atom(unsubs[i]), 0, 0)]
  /\ UNCHANGED <<scope, utils, fractional, nested, pool, content, nodes, pending, docOps>>

\* a wrapper or node read outside any tracked computation (get, size, length,
\* toString, toJSON, index, isDeleted, ...): reportObserved (which does nothing
\* outside a tracked computation), then delegate
Read(atom) ==
  /\ atom \in ExistingAtoms
  /\ log' = <<Entry("read", atom, 0, read(Here, atom))>>
  /\ UNCHANGED <<scope, utils, fractional, nested, pool, wrappers, content, nodes, pending, docOps, reactions>>

\* a resolution of node wrappers through tree wrapper ref, outside any
\* tracked computation: G is what the call did and returned
Resolved(ref, how, G) ==
  /\ Len(G.wrappers) <= WrapperCap
  /\ pool' = G.pool
  /\ wrappers' = G.wrappers
  /\ log' = <<Entry("resolve", Atom(ref), 0, [how |-> how, ret |-> G.ret])>>
  /\ UNCHANGED <<scope, utils, fractional, nested, content, nodes, pending, docOps, reactions>>

IsTree(ref) == ref \in DOMAIN wrappers /\ wrappers[ref].kind = "tree"

\* tree.getNodeByID(target)
TreeGetNodeByID(ref, target) ==
  /\ scope \in TreeScopes /\ IsTree(ref)
  /\ Resolved(ref, "getNodeByID", getNodeByID(Heap, nodes, ref, target))

\* tree.getNodes()
TreeGetNodes(ref) ==
  /\ scope \in TreeScopes /\ IsTree(ref)
  /\ Resolved(ref, "getNodes", getNodes(Heap, nodes, ref))

\* tree.roots()
TreeRoots(ref) ==
  /\ scope \in TreeScopes /\ IsTree(ref)
  /\ Resolved(ref, "roots", roots(Heap, nodes, ref))

\* node.parent() on the cached wrapper of node n
NodeParent(ref, n) ==
  /\ scope \in TreeScopes /\ IsTree(ref)
  /\ n \in DOMAIN wrappers[ref].nodeWrappers
  /\ Resolved(ref, "parent", nodeParent(Heap, nodes, ref, n))

\* node.children() on the cached wrapper of node n
NodeChildren(ref, n) ==
  /\ scope \in TreeScopes /\ IsTree(ref)
  /\ n \in DOMAIN wrappers[ref].nodeWrappers
  /\ Resolved(ref, "children", nodeChildren(Heap, nodes, ref, n))

\* a local write through a map / list / movable list / text wrapper: the
\* document records the change and queues a batch with origin "local"
write(X, ref, v) ==
  CASE X.wrappers[ref].kind = "map" -> mapSet(X, ref, v)
    [] X.wrappers[ref].kind = "list" -> listInsert(X, ref, v)
    [] X.wrappers[ref].kind = "movable" -> movableListMove(X, ref, v)
    [] X.wrappers[ref].kind = "text" -> textInsert(X, ref, v)

\* a call the document took counts as one document operation and queues
\* its batch; a rejected call does neither
Recorded(W, c) ==
  IF Threw(W) THEN UNCHANGED <<pending, docOps>>
  ELSE /\ pending' = Append(pending, Event(c, "local"))
       /\ docOps' = docOps + 1

Write(ref, v) ==
  /\ ref \in DOMAIN wrappers /\ wrappers[ref].kind # "tree"
  /\ v # content[ContainerOf(wrappers[ref])]
  /\ IF v = OutOfBounds THEN wrappers[ref].kind # "map" ELSE docOps < OpCap
  /\ LET W == write(Here, ref, v)
     IN /\ content' = W.content
        /\ log' = W.log
        /\ reactions' = Rerun(reactions, W.log)
        /\ Recorded(W, ContainerOf(wrappers[ref]))
  /\ UNCHANGED <<scope, utils, fractional, nested, pool, wrappers, nodes>>

\* tree.createNode(parent) on the tree wrapper, or node.createNode() on the
\* cached wrapper of the parent node: create, notify, then wrap the new node
TreeCreateNode(ref, parent, viaNode) ==
  /\ scope \in TreeScopes /\ IsTree(ref)
  /\ viaNode => parent \in DOMAIN wrappers[ref].nodeWrappers
  /\ IF RejectsCreate(nodes, wrappers[ref].id, parent) THEN TRUE
     ELSE docOps < MaxDocOps /\ CanCreate(nodes, wrappers[ref].id, parent)
  /\ LET W == treeCreateNode(Here, ref, parent)
         G == wrapNode(Heap, ref, Len(nodes) + 1)
     IN /\ nodes' = W.nodes
        /\ reactions' = Rerun(reactions, W.log)
        /\ Recorded(W, ContainerOf(wrappers[ref]))
        /\ IF Threw(W)
           THEN /\ log' = W.log
                /\ UNCHANGED <<pool, wrappers>>
           ELSE /\ Len(G.wrappers) <= WrapperCap
                /\ log' = W.log \o <<Entry("return", NodeAtom(ref, Len(nodes) + 1), 0, G.ret)>>
                /\ pool' = G.pool
                /\ wrappers' = G.wrappers
  /\ UNCHANGED <<scope, utils, fractional, nested, content>>

\* tree.move(target, parent) on the tree wrapper, or node.move(parent) /
\* moveAfter / moveBefore on the cached wrapper of the target node
TreeMove(ref, target, parent, viaNode) ==
  /\ scope \in TreeScopes /\ IsTree(ref)
  /\ viaNode => /\ target \in DOMAIN wrappers[ref].nodeWrappers
                /\ parent \in {0} \cup DOMAIN wrappers[ref].nodeWrappers
  /\ IF RejectsMove(nodes, wrappers[ref].id, target, parent) THEN TRUE
     ELSE docOps < MaxDocOps /\ CanMove(nodes, wrappers[ref].id, target, parent)
  /\ LET W == treeMove(Here, ref, target, parent)
     IN /\ nodes' = W.nodes
        /\ log' = W.log
        /\ reactions' = Rerun(reactions, W.log)
        /\ Recorded(W, ContainerOf(wrappers[ref]))
  /\ UNCHANGED <<scope, utils, fractional, nested, pool, wrappers, content>>

\* tree.delete(target)
TreeDelete(ref, target) ==
  /\ scope \in TreeScopes /\ IsTree(ref)
  /\ IF RejectsDelete(nodes, wrappers[ref].id, target) THEN TRUE
     ELSE docOps < MaxDocOps /\ CanDelete(nodes, wrappers[ref].id, target)
  /\ LET W == treeDelete(Here, ref, target)
     IN /\ nodes' = W.nodes
        /\ log' = W.log
        /\ reactions' = Rerun(reactions, W.log)
        /\ Recorded(W, ContainerOf(wrappers[ref]))
  /\ UNCHANGED <<scope, utils, fractional, nested, pool, wrappers, content>>

\* the imports followed are those that touch a container the application has
\* wrapped at some time (directly, or as an ancestor of the changed container)
Wrapped(c) ==
  \E ref \in DOMAIN wrappers : ContainerOf(wrappers[ref]) \in EventPath(nodes, c)

\* doc.import of an update made by another peer: the document changes at
\* once, the event batch (origin "import") waits for the document's flush
ImportValue(c, v) ==
  /\ c \in DocContainers /\ c.kind # "tree"
  /\ InScope(c) /\ Wrapped(c)
  /\ docOps < MaxDocOps
  /\ v # content[c]
  /\ content' = [content EXCEPT ![c] = v]
  /\ pending' = Append(pending, Event(c, "import"))
  /\ docOps' = docOps + 1
  /\ log' = <<>>
  /\ UNCHANGED <<scope, utils, fractional, nested, pool, wrappers, nodes, reactions>>

ImportTree(id, edit, target, parent) ==
  /\ scope \in TreeScopes
  /\ Wrapped(Container("tree", id))
  /\ docOps < MaxDocOps
  /\ \/ /\ edit = "create" /\ target = Len(nodes) + 1
        /\ CanCreate(nodes, id, parent)
        /\ nodes' = Append(nodes, NewNode(id, parent))
     \/ /\ edit = "move"
        /\ CanMove(nodes, id, target, parent)
        /\ nodes' = [nodes EXCEPT ![target].parent = parent]
     \/ /\ edit = "delete" /\ parent = 0
        /\ CanDelete(nodes, id, target)
        /\ nodes' = [nodes EXCEPT ![target].deleted = TRUE]
  /\ pending' = Append(pending, Event(Container("tree", id), "import"))
  /\ docOps' = docOps + 1
  /\ log' = <<>>
  /\ UNCHANGED <<scope, utils, fractional, nested, pool, wrappers, content, reactions>>

\* every wrapper of a touched container receives the batch, subscribed or not
Subscribers_everyWrapper(X, event) ==
  {ref \in DOMAIN X.wrappers :
     ContainerOf(X.wrappers[ref]) \in EventPath(X.nodes, event.target)}

\* the wrappers whose subscription receives an event batch
Subscribers(X, event) ==
  {ref \in DOMAIN X.wrappers :
     X.wrappers[ref].unsubscribe /\ ContainerOf(X.wrappers[ref]) \in EventPath(X.nodes, event.target)}

RECURSIVE Deliver(_, _, _)
Deliver(X, refs, event) ==
  IF refs = <<>> THEN <<>>
  ELSE <<Entry("callback", Atom(Head(refs)), 0, 0)>> \o subscribeCallback(X, Head(refs), event)
         \o Deliver(X, Tail(refs), event)

\* a handleLoroEvent that drops the wrapper of the container an event names
handleLoroEvent_evicts(p, event) == clearInstance(p, event.target.kind, event.target.id)

\* ObservableLoroPool.handleLoroEvent: nothing yet
handleLoroEvent(p, event) == p

\* the document's event flush: the oldest batch goes to every subscribed
\* callback, then to the pool's document-level subscription
Flush ==
  /\ pending # <<>>
  /\ pending' = Tail(pending)
  /\ LET done == Deliver(Here, SetToSeq(Subscribers(Here, Head(pending))), Head(pending))
     IN /\ log' = <<Entry("flush", NoAtom, 0, Head(pending))>> \o done
        /\ reactions' = Rerun(reactions, done)
  /\ pool' = IF pool.unsubscribe THEN handleLoroEvent(pool, Head(pending)) ELSE pool
  /\ UNCHANGED <<scope, utils, fractional, nested, wrappers, content, nodes, docOps>>

\* the calls of an application that only asks for what the tree takes
TakesCreate(ref, parent) == IsTree(ref) /\ ~RejectsCreate(nodes, wrappers[ref].id, parent)
TakesMove(ref, target, parent) == IsTree(ref) /\ ~RejectsMove(nodes, wrappers[ref].id, target, parent)
TakesDelete(ref, target) == IsTree(ref) /\ ~RejectsDelete(nodes, wrappers[ref].id, target)

Next ==
  \/ \E c \in DocContainers : InScope(c) /\ Get(ContainerValue(c.kind, c.id))
  \/ \E c \in DocContainers : InScope(c) /\ ClearInstance(c.kind, c.id)
  \/ ClearAll
  \/ Dispose
  \/ \E r \in Reactions, deps \in SUBSET ExistingAtoms : CreateReaction(r, deps)
  \/ \E r \in Reactions : DisposeReaction(r)
  \/ \E atom \in Atoms : Read(atom)
  \/ \E ref \in DOMAIN wrappers, target \in NodeIds : TreeGetNodeByID(ref, target)
  \/ \E ref \in DOMAIN wrappers, v \in Values : Write(ref, v)
  \/ \E ref \in DOMAIN wrappers, parent \in {0} \cup NodeIds, viaNode \in BOOLEAN :
        TakesCreate(ref, parent) /\ TreeCreateNode(ref, parent, viaNode)
  \/ \E ref \in DOMAIN wrappers, target \in NodeIds, parent \in {0} \cup NodeIds,
        viaNode \in BOOLEAN : TakesMove(ref, target, parent) /\ TreeMove(ref, target, parent, viaNode)
  \/ \E ref \in DOMAIN wrappers, target \in NodeIds :
        TakesDelete(ref, target) /\ TreeDelete(ref, target)
  \/ \E c \in DocContainers, v \in Values : ImportValue(c, v)
  \/ \E edit \in {"create", "move", "delete"}, target \in NodeIds, parent \in {0} \cup NodeIds :
        ImportTree(RootId("a"), edit, target, parent)
  \/ Flush

Spec == Init /\ [][Next]_vars

\* the pool alone: an application that only resolves and evicts wrappers
NextPool ==
  \/ \E value \in GetInputs : Get(value)
  \/ \E c \in ClearInputs : ClearInstance(c.kind, c.id)
  \/ ClearAll
  \/ Dispose
  \/ \E ref \in DOMAIN wrappers, target \in NodeIds : TreeGetNodeByID(ref, target)

SpecPool == Init /\ [][NextPool]_vars

\* the tree alone: an application that resolves node wrappers every way,
\* edits the tree through them and receives imported edits
NextTree ==
  \/ \E c \in DocContainers : InScope(c) /\ Get(ContainerValue(c.kind, c.id))
  \/ \E ref \in DOMAIN wrappers, target \in NodeIds : TreeGetNodeByID(ref, target)
  \/ \E ref \in DOMAIN wrappers : TreeGetNodes(ref)
  \/ \E ref \in DOMAIN wrappers : TreeRoots(ref)
  \/ \E ref \in DOMAIN wrappers, n \in NodeIds : NodeParent(ref, n)
  \/ \E ref \in DOMAIN wrappers, n \in NodeIds : NodeChildren(ref, n)
  \/ \E r \in Reactions, deps \in SUBSET ExistingAtoms : CreateReaction(r, deps)
  \/ \E r \in Reactions : DisposeReaction(r)
  \/ \E ref \in DOMAIN wrappers, parent \in {0} \cup NodeIds, viaNode \in BOOLEAN :
        TakesCreate(ref, parent) /\ TreeCreateNode(ref, parent, viaNode)
  \/ \E ref \in DOMAIN wrappers, target \in NodeIds, parent \in {0} \cup NodeIds,
        viaNode \in BOOLEAN : TakesMove(ref, target, parent) /\ TreeMove(ref, target, parent, viaNode)
  \/ \E ref \in DOMAIN wrappers, target \in NodeIds :
        TakesDelete(ref, target) /\ TreeDelete(ref, target)
  \/ \E edit \in {"create", "move", "delete"}, target \in NodeIds, parent \in {0} \cup NodeIds :
        ImportTree(RootId("a"), edit, target, parent)
  \/ Flush

SpecTree == InitTree /\ [][NextTree]_vars

\* the wrappers of the root containers that hold elements by index, or by
\* key (children are nested one level deep)
IsParent(ref) == ref \in DOMAIN wrappers /\ ContainerOf(wrappers[ref]) \in Parents
IsList(ref) == IsParent(ref) /\ wrappers[ref].kind \in {"list", "movable"}
IsMap(ref) == IsParent(ref) /\ wrappers[ref].kind = "map"

\* a container-inserting write W through wrapper ref: the application keeps
\* the wrapper it returned; the document records an operation and queues a
\* batch when the call attached a container
InsertedBy(ref, W) ==
  /\ Len(W.wrappers) <= WrapperCap
  /\ nested' = [W.nested EXCEPT !.slot[ContainerOf(wrappers[ref])].w = W.ret.ref]
  /\ pool' = W.pool
  /\ wrappers' = W.wrappers
  /\ log' = W.log \o <<Entry("inserted", Atom(ref), 0, W.ret)>>
  /\ reactions' = Rerun(reactions, W.log)
  /\ IF W.nested.made > nested.made
     THEN /\ pending' = Append(pending, Event(ContainerOf(wrappers[ref]), "local"))
          /\ docOps' = docOps + 1
     ELSE UNCHANGED <<pending, docOps>>
  /\ UNCHANGED <<scope, utils, fractional, content, nodes>>

\* list.insertContainer(at, child) / pushContainer(child) / setContainer
InsertContainer(ref, k, at) ==
  /\ scope = "nested" /\ IsList(ref)
  /\ docOps < OpCap /\ nested.made < MaxChildren
  /\ InsertedBy(ref, listPushContainer(Here, nested, ref, k, at))

\* map.setContainer(key, child)
SetContainer(ref, k) ==
  /\ scope = "nested" /\ IsMap(ref)
  /\ docOps < OpCap /\ nested.made < MaxChildren
  /\ InsertedBy(ref, mapSetContainer(Here, nested, ref, k))

\* map.getOrCreateContainer(key, child)
GetOrCreateContainer(ref, k) ==
  /\ scope = "nested" /\ IsMap(ref)
  /\ IF nested.slot[ContainerOf(wrappers[ref])].child = NoChild
     THEN docOps < OpCap /\ nested.made < MaxChildren ELSE TRUE
  /\ InsertedBy(ref, mapGetOrCreateContainer(Here, nested, ref, k))

\* a read of one element through wrapper ref, outside any tracked
\* computation: G is the pool.get of the element
Element(ref, i, G) ==
  /\ Len(G.wrappers) <= WrapperCap
  /\ pool' = G.pool
  /\ wrappers' = G.wrappers
  /\ log' = <<Entry("element", Atom(ref), 0, [at |-> i, ret |-> G.ret])>>
  /\ UNCHANGED <<scope, utils, fractional, content, nodes, nested, pending, docOps, reactions>>

\* list.get(i), list.toArray()[i]
ListGet(ref, i) ==
  /\ scope = "nested" /\ IsList(ref)
  /\ Element(ref, i, listGetAt(Heap, nested, content, ref, i))

\* map.get(key)
MapGet(ref) ==
  /\ scope = "nested" /\ IsMap(ref)
  /\ Element(ref, 0, mapGetKey(Heap, nested, content, ref))

\* movableList.move(from, to)
MoveItem(ref, from, to) ==
  /\ scope = "nested" /\ IsList(ref) /\ wrappers[ref].kind = "movable"
  /\ from # to
  /\ docOps < OpCap
  /\ LET W == movableListMoveItem(Here, nested, ref, from, to)
     IN /\ nested' = W.nested
        /\ log' = W.log
        /\ reactions' = Rerun(reactions, W.log)
  /\ pending' = Append(pending, Event(ContainerOf(wrappers[ref]), "local"))
  /\ docOps' = docOps + 1
  /\ UNCHANGED <<scope, utils, fractional, pool, wrappers, content, nodes>>

\* the child containers the root containers hold
Held == {c \in Parents : nested.slot[c].child # NoChild}

\* an application that nests containers, reads them back and evicts wrappers
NextNested ==
  \/ \E c \in DocContainers : InScope(c) /\ Get(ContainerValue(c.kind, c.id))
  \/ \E c \in Held : Get(ContainerValue(nested.slot[c].child.kind, nested.slot[c].child.id))
  \/ \E ref \in DOMAIN wrappers, k \in ChildKinds, at \in Indices : InsertContainer(ref, k, at)
  \/ \E ref \in DOMAIN wrappers, k \in ChildKinds : SetContainer(ref, k)
  \/ \E ref \in DOMAIN wrappers, k \in ChildKinds : GetOrCreateContainer(ref, k)
  \/ \E ref \in DOMAIN wrappers, i \in Indices : ListGet(ref, i)
  \/ \E ref \in DOMAIN wrappers : MapGet(ref)
  \/ \E ref \in DOMAIN wrappers, from \in Indices, to \in Indices : MoveItem(ref, from, to)
  \/ \E c \in Held : ClearInstance(nested.slot[c].child.kind, nested.slot[c].child.id)
  \/ ClearAll

SpecNested == InitNested /\ [][NextNested]_vars

\* an application that observes the root map and lists through a reaction
\* while it writes their elements and nests containers in them
\* (the reaction reads the root containers, not the nested ones)
NextKeys ==
  \/ \E c \in DocContainers : InScope(c) /\ Get(ContainerValue(c.kind, c.id))
  \/ \E r \in Reactions, deps \in SUBSET ExistingAtoms :
        (\A atom \in deps : IsParent(atom[1])) /\ CreateReaction(r, deps)
  \/ \E r \in Reactions : DisposeReaction(r)
  \/ \E ref \in DOMAIN wrappers, v \in Values : IsParent(ref) /\ Write(ref, v)
  \/ \E ref \in DOMAIN wrappers, k \in ChildKinds, at \in Indices : InsertContainer(ref, k, at)
  \/ \E ref \in DOMAIN wrappers, k \in ChildKinds : SetContainer(ref, k)
  \/ \E ref \in DOMAIN wrappers, k \in ChildKinds : GetOrCreateContainer(ref, k)
  \/ \E ref \in DOMAIN wrappers, from \in Indices, to \in Indices : MoveItem(ref, from, to)

SpecKeys == InitNested /\ [][NextKeys]_vars

\* an application that also makes calls the underlying containers reject
NextWrites ==
  \/ \E c \in DocContainers : InScope(c) /\ Get(ContainerValue(c.kind, c.id))
  \/ \E ref \in DOMAIN wrappers, target \in NodeIds : TreeGetNodeByID(ref, target)
  \/ \E r \in Reactions, deps \in SUBSET ExistingAtoms : CreateReaction(r, deps)
  \/ \E ref \in DOMAIN wrappers, v \in Values \cup {OutOfBounds} : Write(ref, v)
  \/ \E ref \in DOMAIN wrappers, parent \in {0} \cup NodeIds, viaNode \in BOOLEAN :
        TreeCreateNode(ref, parent, viaNode)
  \/ \E ref \in DOMAIN wrappers, target \in NodeIds, parent \in {0} \cup NodeIds,
        viaNode \in BOOLEAN : TreeMove(ref, target, parent, viaNode)
  \/ \E ref \in DOMAIN wrappers, target \in NodeIds : TreeDelete(ref, target)

SpecWrites == Init /\ [][NextWrites]_vars

\* application code calling the exported class's constructor itself:
\* new ObservableLoroTreeNode(node, tree, pool) with the raw node n of the
\* tree behind tree wrapper ref; without a pool the constructor throws
NewObservableLoroTreeNode(ref, n, withPool) ==
  /\ IsTree(ref) /\ n \in TreeNodes(nodes, wrappers[ref].id)
  /\ wrappers[ref].made < MaxObjects
  /\ LET N == constructor(Heap, ref, n, withPool)
     IN /\ Len(N.wrappers) <= WrapperCap
        /\ pool' = N.pool
        /\ wrappers' = N.wrappers
        /\ log' = IF N.ret = NoObject
                  THEN <<Entry("throw", NodeAtom(ref, n), 0, 0)>>
                  ELSE <<Entry("new", NodeAtom(ref, n), 0, NodeWrapperValue(ref, n, N.ret.obj))>>
  /\ UNCHANGED <<scope, utils, fractional, nested, content, nodes, pending, docOps, reactions>>

\* an application that resolves node wrappers and also constructs them itself
NextConstruct ==
  \/ \E c \in DocContainers : InScope(c) /\ Get(ContainerValue(c.kind, c.id))
  \/ \E ref \in DOMAIN wrappers, target \in NodeIds : TreeGetNodeByID(ref, target)
  \/ \E ref \in DOMAIN wrappers : TreeGetNodes(ref)
  \/ \E ref \in DOMAIN wrappers, n \in NodeIds, withPool \in BOOLEAN :
        NewObservableLoroTreeNode(ref, n, withPool)

SpecConstruct == InitTree /\ [][NextConstruct]_vars

\* an application that resolves and evicts wrappers of a tree and of its
\* nodes' metadata maps while nodes are deleted, locally and by imports
NextEvict ==
  \/ \E c \in DocContainers : InScope(c) /\ Get(ContainerValue(c.kind, c.id))
  \/ \E c \in DocContainers : InScope(c) /\ ClearInstance(c.kind, c.id)
  \/ ClearAll
  \/ Dispose
  \/ \E ref \in DOMAIN wrappers, target \in NodeIds : TreeGetNodeByID(ref, target)
  \/ \E ref \in DOMAIN wrappers, target \in NodeIds :
        TakesDelete(ref, target) /\ TreeDelete(ref, target)
  \/ \E target \in NodeIds : ImportTree(RootId("a"), "delete", target, 0)
  \/ Flush

SpecEvict == Start("tree") /\ [][NextEvict]_vars

\* the same application holding one wrapper more: an evicted metadata map
\* can be resolved again
SpecData == InitTree /\ [][NextEvict]_vars

\* an application that reads: plain reads, node resolution, element reads,
\* reads inside reactions; it works either with the tree and its nodes or
\* with the root containers and what it nests in them
NextReads ==
  \/ \E c \in DocContainers : InScope(c) /\ Get(ContainerValue(c.kind, c.id))
  \/ \E atom \in Atoms : (scope = "nodes" \/ IsParent(atom[1])) /\ Read(atom)
  \/ \E ref \in DOMAIN wrappers, target \in NodeIds : TreeGetNodeByID(ref, target)
  \/ \E ref \in DOMAIN wrappers : TreeGetNodes(ref)
  \/ \E ref \in DOMAIN wrappers : TreeRoots(ref)
  \/ \E ref \in DOMAIN wrappers, n \in NodeIds : NodeParent(ref, n)
  \/ \E ref \in DOMAIN wrappers, n \in NodeIds : NodeChildren(ref, n)
  \/ \E r \in Reactions, deps \in SUBSET ExistingAtoms :
        (\A atom \in deps : scope = "nodes" \/ IsParent(atom[1])) /\ CreateReaction(r, deps)
  \/ \E r \in Reactions : DisposeReaction(r)
  \/ \E ref \in DOMAIN wrappers, k \in ChildKinds, at \in Indices : InsertContainer(ref, k, at)
  \/ \E ref \in DOMAIN wrappers, k \in ChildKinds : SetContainer(ref, k)
  \/ \E ref \in DOMAIN wrappers, i \in Indices : ListGet(ref, i)
  \/ \E ref \in DOMAIN wrappers : MapGet(ref)
  \/ \E ref \in DOMAIN wrappers, target \in NodeIds :
        TakesDelete(ref, target) /\ TreeDelete(ref, target)

SpecReads == (\E sc \in {"nodes", "nested"} : Start(sc)) /\ [][NextReads]_vars

\* an application that writes through the wrappers of nested things (a
\* node's metadata map, a child container) while a reaction observes a
\* wrapper; it works either with the tree and its nodes or with the root
\* containers and what it nests in them
NextFrame ==
  \/ \E c \in DocContainers : InScope(c) /\ Get(ContainerValue(c.kind, c.id))
  \/ \E ref \in DOMAIN wrappers, target \in NodeIds : TreeGetNodeByID(ref, target)
  \/ \E ref \in DOMAIN wrappers, k \in ChildKinds, at \in Indices : InsertContainer(ref, k, at)
  \/ \E ref \in DOMAIN wrappers, k \in ChildKinds : SetContainer(ref, k)
  \/ \E r \in Reactions, deps \in SUBSET ExistingAtoms : CreateReaction(r, deps)
  \/ \E r \in Reactions : DisposeReaction(r)
  \/ \E ref \in DOMAIN wrappers, v \in Values : Write(ref, v)
  \/ \E ref \in DOMAIN wrappers, target \in NodeIds, parent \in {0} \cup NodeIds,
        viaNode \in BOOLEAN : TakesMove(ref, target, parent) /\ TreeMove(ref, target, parent, viaNode)

SpecFrame == (\E sc \in {"nodes", "nested"} : Start(sc)) /\ [][NextFrame]_vars

\* wrapper.original.set(...) / insert / delete, or the same call on the
\* container taken from the document: the underlying container is mutated
\* past the wrapper; the document records the change and queues a batch
\* with origin "local"
DirectWrite(c, v) ==
  /\ c \in DocContainers /\ c.kind # "tree"
  /\ InScope(c) /\ Wrapped(c)
  /\ docOps < MaxDocOps
  /\ v # content[c]
  /\ content' = [content EXCEPT ![c] = v]
  /\ pending' = Append(pending, Event(c, "local"))
  /\ docOps' = docOps + 1
  /\ log' = <<Entry("direct", NoAtom, 0, c)>>
  /\ UNCHANGED <<scope, utils, fractional, nested, pool, wrappers, nodes, reactions>>

\* tree.original.delete(target)
DirectTreeDelete(id, target) ==
  /\ scope \in TreeScopes
  /\ Wrapped(Container("tree", id))
  /\ docOps < MaxDocOps
  /\ CanDelete(nodes, id, target)
  /\ nodes' = [nodes EXCEPT ![target].deleted = TRUE]
  /\ pending' = Append(pending, Event(Container("tree", id), "local"))
  /\ docOps' = docOps + 1
  /\ log' = <<Entry("direct", NoAtom, 0, Container("tree", id))>>
  /\ UNCHANGED <<scope, utils, fractional, nested, pool, wrappers, content, reactions>>

\* an application that mutates the underlying containers directly while
\* reactions observe their wrappers
NextDirect ==
  \/ \E c \in DocContainers : InScope(c) /\ Get(ContainerValue(c.kind, c.id))
  \/ \E ref \in DOMAIN wrappers, target \in NodeIds : TreeGetNodeByID(ref, target)
  \/ \E r \in Reactions, deps \in SUBSET ExistingAtoms : CreateReaction(r, deps)
  \/ \E r \in Reactions : DisposeReaction(r)
  \/ \E atom \in Atoms : Read(atom)
  \/ \E c \in DocContainers, v \in Values : DirectWrite(c, v)
  \/ \E target \in NodeIds : DirectTreeDelete(RootId("a"), target)
  \/ Flush

SpecDirect == Init /\ [][NextDirect]_vars

\* an application that evicts a wrapper it still uses, resolves the
\* container again and goes on with both wrappers
NextTwins ==
  \/ \E c \in DocContainers : InScope(c) /\ Get(ContainerValue(c.kind, c.id))
  \/ \E c \in DocContainers : InScope(c) /\ ClearInstance(c.kind, c.id)
  \/ ClearAll
  \/ \E r \in Reactions, deps \in SUBSET ExistingAtoms : CreateReaction(r, deps)
  \/ \E r \in Reactions : DisposeReaction(r)
  \/ \E ref \in DOMAIN wrappers, v \in Values : Write(ref, v)
  \/ Flush

SpecTwins == Start("roots") /\ [][NextTwins]_vars

\* tree.enableFractionalIndex(jitter) (on) / tree.disableFractionalIndex()
\* through the tree wrapper: a setting of the tree, not an operation of the
\* document
SetFractionalIndex(ref, on) ==
  /\ scope \in TreeScopes /\ IsTree(ref)
  /\ fractional' = on
  /\ LET done == IF on THEN enableFractionalIndex(Here, ref)
                  ELSE disableFractionalIndex(Here, ref)
     IN /\ log' = done
        /\ reactions' = Rerun(reactions, done)
  /\ UNCHANGED <<scope, utils, nested, pool, wrappers, content, nodes, pending, docOps>>

\* tree.isFractionalIndexEnabled() outside any tracked computation
ReadFractionalIndex(ref) ==
  /\ scope \in TreeScopes /\ IsTree(ref)
  /\ log' = <<Entry("read", Atom(ref), 0, isFractionalIndexEnabled(fractional))>>
  /\ UNCHANGED <<scope, utils, fractional, nested, pool, wrappers, content, nodes, pending,
                 docOps, reactions>>

\* an application that switches the tree's fractional index on and off
\* while reactions observe the tree wrapper and its nodes
NextFractional ==
  \/ \E c \in DocContainers : InScope(c) /\ Get(ContainerValue(c.kind, c.id))
  \/ \E ref \in DOMAIN wrappers, target \in NodeIds : TreeGetNodeByID(ref, target)
  \/ \E r \in Reactions, deps \in SUBSET ExistingAtoms : CreateReaction(r, deps)
  \/ \E r \in Reactions : DisposeReaction(r)
  \/ \E ref \in DOMAIN wrappers, on \in BOOLEAN : SetFractionalIndex(ref, on)
  \/ \E ref \in DOMAIN wrappers : ReadFractionalIndex(ref)
  \/ \E ref \in DOMAIN wrappers, target \in NodeIds, parent \in {0} \cup NodeIds,
        viaNode \in BOOLEAN : TakesMove(ref, target, parent) /\ TreeMove(ref, target, parent, viaNode)

SpecFractional == Start("tree") /\ [][NextFractional]_vars

\* an application that observes the root containers through reactions, writes
\* and imports while they come and go, and disposes the pool
NextObserve ==
  \/ \E c \in DocContainers : InScope(c) /\ Get(ContainerValue(c.kind, c.id))
  \/ \E r \in Reactions, deps \in SUBSET ExistingAtoms : CreateReaction(r, deps)
  \/ \E r \in Reactions : DisposeReaction(r)
  \/ \E ref \in DOMAIN wrappers, v \in Values : Write(ref, v)
  \/ \E c \in DocContainers, v \in Values : ImportValue(c, v)
  \/ Flush
  \/ Dispose

SpecObserve == Start("roots") /\ [][NextObserve]_vars

\* getMap(doc, "a") / getList(doc, "a") / ... of utils.ts
DocGet(doc, k) ==
  LET G == docGet(utils, doc, k, "a") IN
  /\ Len(G.utils.pools) <= MaxPools
  /\ Len(G.utils.wrappers) <= WrapperCap
  /\ utils' = G.utils
  /\ log' = <<Entry("docGet", NoAtom, 0,
                    [doc |-> doc, kind |-> k, ret |-> G.ret,
                     pool |-> G.utils.owner[G.ret.ref]])>>
  /\ UNCHANGED <<scope, fractional, pool, wrappers, content, nodes, nested, pending, docOps, reactions>>

\* disposePool(doc) of utils.ts
DisposePool(doc) ==
  /\ utils' = disposePool(utils, doc)
  /\ log' = <<Entry("disposePool", NoAtom, 0, [doc |-> doc, pool |-> utils.docPools[doc]])>>
  /\ UNCHANGED <<scope, fractional, pool, wrappers, content, nodes, nested, pending, docOps, reactions>>

\* an application that reaches the wrappers through the utility functions
NextUtils ==
  \/ \E doc \in Docs, k \in Kinds : DocGet(doc, k)
  \/ \E doc \in Docs : DisposePool(doc)

SpecUtils == InitUtils /\ [][NextUtils]_vars

\* ------------------------------------------------------------ properties
\* the operation the last step was, read off its first log entry
LastWas(e) == log # <<>> /\ log[1].e = e
CachedRef(p, c) == Registry(p, c.kind)[c.id]
CachedKeys(p) == {c \in [kind : Kinds, id : ContainerIDs] : CachedRef(p, c) # NoRef}
ValueOf(c) == ContainerValue(c.kind, c.id)

\* C1 - idempotent resolution: while a container's registry entry is not
\* removed by clearInstance / clearAll / dispose, no step (write, import,
\* flush, reaction created or disposed, read, another get) changes it, and
\* every pool.get of that container returns the wrapper the entry names.
C1_IdempotentResolution ==
  /\ [](\A c \in DocContainers :
          LET r == CachedRef(pool, c) IN
          r # NoRef =>
            /\ get(Heap, ValueOf(c)) = Result(pool, wrappers, WrapperValue(r))
            /\ (LastWas("get") /\ log[1].saw.value = ValueOf(c))
                 => log[1].saw.ret = WrapperValue(r))
  /\ [][pool' # pool =>
         \A c \in DocContainers :
           (CachedRef(pool, c) # NoRef /\ CachedRef(pool', c) # CachedRef(pool, c))
             => (ClearInstance(c.kind, c.id) \/ ClearAll \/ Dispose)]_vars

\* a get that returned a wrapper constructed earlier, observed since and
\* whose container was written in between
C1_Witness ==
  /\ LastWas("get") /\ log[1].saw.ret.tag = "wrapper"
  /\ LET r == log[1].saw.ret.ref IN
       /\ wrappers[r].unsubscribe /\ wrappers[r].kind # "tree"
       /\ content[ContainerOf(wrappers[r])] # 0
       /\ pending = <<>>

\* C2 (as stated) - at most one wrapper constructed by the pool exists per
\* (kind, identity), the wrappers handed out earlier included.
C2_OneWrapperEverPerKey ==
  \A r1, r2 \in DOMAIN wrappers :
    ContainerOf(wrappers[r1]) = ContainerOf(wrappers[r2]) => r1 = r2

\* C2 (amended) - at most one wrapper per (kind, identity) is cached: every
\* registry entry names a wrapper of the entry's own kind and identity, among
\* the wrappers of one (kind, identity) at most one is cached, and get
\* constructs a wrapper only for a container that has no cached wrapper.
C2_OneCachedWrapperPerKey ==
  /\ \A c \in CachedKeys(pool) :
       /\ CachedRef(pool, c) \in DOMAIN wrappers
       /\ ContainerOf(wrappers[CachedRef(pool, c)]) = c
  /\ \A r1, r2 \in DOMAIN wrappers :
       (/\ ContainerOf(wrappers[r1]) = ContainerOf(wrappers[r2])
        /\ Cached(pool, r1) /\ Cached(pool, r2)) => r1 = r2
  /\ \A c \in DocContainers :
       get(Heap, ValueOf(c)).wrappers # wrappers => CachedRef(pool, c) = NoRef

\* two wrappers of one container exist: the evicted one the application still
\* holds, and the cached one the get after the eviction constructed
C2_Witness ==
  \E r1, r2 \in DOMAIN wrappers :
    /\ r1 < r2 /\ ContainerOf(wrappers[r1]) = ContainerOf(wrappers[r2])
    /\ ~Cached(pool, r1) /\ Cached(pool, r2)
    /\ LastWas("get") /\ log[1].saw.ret = WrapperValue(r2)

\* C3 - cross-kind independence: get and clearInstance on a container of one
\* kind leave the registries of the other kinds unchanged, has answers from
\* the registry of the kind asked alone, and one identity cached under two
\* kinds means two distinct wrappers, both counted by size.
C3_CrossKindIndependence ==
  /\ \A c \in [kind : Kinds, id : ContainerIDs] :
       has(pool, c.kind, c.id) = (CachedRef(pool, c) # NoRef)
  /\ size(pool) = Cardinality(CachedKeys(pool))
  /\ \A c1, c2 \in CachedKeys(pool) :
       c1 # c2 => CachedRef(pool, c1) # CachedRef(pool, c2)
  /\ \A c \in DocContainers : \A k \in Kinds \ {c.kind} :
       /\ Registry(get(Heap, ValueOf(c)).pool, k) = Registry(pool, k)
       /\ Registry(clearInstance(pool, c.kind, c.id), k) = Registry(pool, k)

\* a map and a tree of the same identity are cached together
C3_Witness ==
  /\ pool.maps[RootId("a")] # NoRef /\ pool.trees[RootId("a")] # NoRef
  /\ pool.maps[RootId("a")] # pool.trees[RootId("a")]
  /\ size(pool) = 2

\* C4 - pass-through: pool.get of a value that is not a container returns the
\* value itself and leaves the registries, the size and the wrappers alone.
C4_PassThrough ==
  /\ \A v \in {PlainValue(p) : p \in PlainKinds} :
       /\ get(Heap, v) = Result(pool, wrappers, v)
       /\ size(get(Heap, v).pool) = size(pool)
  /\ (LastWas("get") /\ log[1].saw.value.tag = "plain")
       => log[1].saw.ret = log[1].saw.value

\* a plain value went through a pool that caches a wrapper
C4_Witness ==
  /\ LastWas("get") /\ log[1].saw.value.tag = "plain"
  /\ log[1].saw.ret = log[1].saw.value
  /\ size(pool) > 0

\* the positions of the log entries of one sort
Entries(e) == {i \in DOMAIN log : log[i].e = e}
\* what a reaction would read now
Fresh(r) == [a \in reactions[r].deps |-> ViewOf(Here, a)]

\* C5 - a wrapper's subscription handle is non-null exactly while its atom is
\* observed by at least one live reaction; a read outside a tracked
\* computation leaves it as it is.
C5_SubscribedIffObserved ==
  \A ref \in DOMAIN wrappers :
    wrappers[ref].unsubscribe <=> (Observers(reactions, Atom(ref)) # {})

\* a wrapper that two reactions observe is subscribed, and a wrapper read
\* outside any reaction is not
C5_Witness ==
  /\ LastWas("read") /\ log[1].atom[2] = 0
  /\ ~wrappers[log[1].atom[1]].unsubscribe
  /\ \E ref \in DOMAIN wrappers :
       wrappers[ref].unsubscribe /\ Cardinality(Observers(reactions, Atom(ref))) = 2

C7_ReadsNeverStale ==
  /\ LastWas("read") => log[1].saw = ViewOf(Here, log[1].atom)
  /\ \A atom \in ExistingAtoms : read(Here, atom) = ViewOf(Here, atom)
  /\ \A i \in Entries("run") : log[i].saw = Fresh(log[i].r)

\* a wrapper that was never observed, whose container an import changed and
\* whose event has been flushed, is read and returns the imported content
C7_Witness ==
  /\ LastWas("read") /\ log[1].atom[2] = 0
  /\ LET w == wrappers[log[1].atom[1]] IN
       /\ w.kind = "map" /\ ~w.unsubscribe
       /\ content[ContainerOf(w)] # 0 /\ log[1].saw = content[ContainerOf(w)]
  /\ pending = <<>> /\ docOps > 0
  /\ \A r \in Reactions : ~reactions[r].live

C9_RemoteReachesNodeReaders ==
  (LastWas("flush") /\ log[1].saw.by = "import" /\ log[1].saw.target.kind = "tree") =>
    \A r \in Reactions :
      (/\ reactions[r].live
       /\ \E a \in reactions[r].deps :
            a[2] # 0 /\ ContainerOf(wrappers[a[1]]) = log[1].saw.target) =>
        /\ \E i \in Entries("run") : log[i].r = r
        /\ reactions[r].saw = Fresh(r)

\* C10 - no double notification: the callback reports nothing changed for
\* a batch of local origin, so a local write reports the wrapper's atom
\* changed once, from the synchronous path, and runs each observing reaction
\* once; only a batch of another origin is reported from the callback.
C10_NoDoubleNotification ==
  /\ (LastWas("flush") /\ log[1].saw.by = "local") =>
       Entries("changed") = {} /\ Entries("run") = {}
  /\ (LastWas("flush") /\ Entries("changed") # {}) => log[1].saw.by # "local"
  /\ LastWas("apply") =>
       /\ Cardinality({i \in Entries("changed") : log[i].atom = log[1].atom}) = 1
       /\ \A r \in Reactions : Cardinality({i \in Entries("run") : log[i].r = r}) <= 1

\* the batch of a local write reached the callback of the observed wrapper
\* the write went through, and nothing was reported
C10_Witness ==
  /\ LastWas("flush") /\ log[1].saw.by = "local"
  /\ \E i \in Entries("callback") :
       /\ ContainerOf(wrappers[log[i].atom[1]]) = log[1].saw.target
       /\ Observers(reactions, log[i].atom) # {}
  /\ Len(log) = 2

\* C11 - remote consistency across independent pools: an update made through
\* another document's wrapper and imported into this document is what this
\* pool's wrapper of the same container reads afterwards, and the wrapper
\* cached before the import is the one pool.get returns after it: the
\* import changes neither the registries nor the wrappers.
C11_RemoteConsistency ==
  /\ [](\A c \in CachedKeys(pool) : c.kind = "map" =>
          /\ mapGet(Here, CachedRef(pool, c)) = content[c]
          /\ get(Heap, ValueOf(c)).ret = WrapperValue(CachedRef(pool, c)))
  /\ [][(Len(pending') > Len(pending) /\ pending'[Len(pending')].by = "import") =>
          /\ pool' = pool /\ wrappers' = wrappers
          /\ \A c \in CachedKeys(pool) : c.kind = "map" =>
               mapGet(Here, CachedRef(pool, c))' = content'[c]]_vars

\* the only wrapper ever made was cached before x = 1 was imported, and
\* pool.get has just returned it again; it reads 1
C11_Witness ==
  /\ LastWas("get") /\ Len(wrappers) = 1 /\ log[1].saw.ret = WrapperValue(1)
  /\ wrappers[1].kind = "map"
  /\ pending = <<Event(ContainerOf(wrappers[1]), "import")>>
  /\ content[ContainerOf(wrappers[1])] = 1
  /\ mapGet(Here, 1) = 1

\* the node wrapper object cached for node n by tree wrapper ref
CachedNode(ref, n) == NodeWrapperValue(ref, n, wrappers[ref].nodeWrappers[n].obj)

\* C12 - node wrapper identity: for a fixed tree wrapper, once a node has a
\* cached node wrapper every resolution of that node (the value createNode
\* returned, getNodeByID, getNodes, roots, parent(), children()) returns that
\* same object, in every later state: after local moves and deletes and
\* after imported edits, whatever parent() and isDeleted() answer by then.
C12_NodeIdentityStable ==
  /\ [](\A ref \in DOMAIN wrappers : wrappers[ref].kind = "tree" =>
          LET R == getNodes(Heap, nodes, ref).ret \o roots(Heap, nodes, ref).ret
              cache == wrappers[ref].nodeWrappers
          IN /\ \A i \in DOMAIN R : R[i].node \in DOMAIN cache => R[i] = CachedNode(ref, R[i].node)
             /\ \A n \in DOMAIN cache : getNodeByID(Heap, nodes, ref, n).ret = <<CachedNode(ref, n)>>
             /\ \A n \in DOMAIN cache :
                  LET Q == nodeParent(Heap, nodes, ref, n).ret \o nodeChildren(Heap, nodes, ref, n).ret
                  IN \A i \in DOMAIN Q : Q[i].node \in DOMAIN cache => Q[i] = CachedNode(ref, Q[i].node)
             /\ LastWas("resolve") /\ log[1].atom = Atom(ref) =>
                  \A i \in DOMAIN log[1].saw.ret : log[1].saw.ret[i] = CachedNode(ref, log[1].saw.ret[i].node)
             /\ \A i \in Entries("return") : log[i].atom[1] = ref => log[i].saw = CachedNode(ref, log[i].atom[2]))
  /\ [][wrappers' # wrappers =>
          \A ref \in DOMAIN wrappers : \A n \in DOMAIN wrappers[ref].nodeWrappers :
            /\ n \in DOMAIN wrappers'[ref].nodeWrappers
            /\ wrappers'[ref].nodeWrappers[n] = wrappers[ref].nodeWrappers[n]]_vars

\* node 2, wrapped while it was the child of node 1, was moved to the top
\* by an imported edit; roots() has just returned that first object for it
C12_Witness ==
  /\ LastWas("resolve") /\ log[1].saw.how = "roots"
  /\ \E i \in DOMAIN log[1].saw.ret :
       /\ log[1].saw.ret[i].node = 2 /\ log[1].saw.ret[i].val = 1
  /\ nodes[2].parent = 0 /\ InitialNodes[2].parent = 1
  /\ docOps = 1 /\ pending = <<>>

\* the atoms the last step reported changed
Changed == {log[i].atom : i \in Entries("changed")}
\* the nodes the last step wrapped only after it had notified
Returned == {log[i].atom[2] : i \in Entries("return")}
\* the atoms a structural change of tree wrapper ref has to signal
TreeAtoms(ref) ==
  {Atom(ref)} \cup {NodeAtom(ref, n) : n \in DOMAIN wrappers[ref].nodeWrappers \ Returned}

\* C13 - coarse structural invalidation: every successful structural
\* mutation (createNode, move, delete on the tree wrapper; createNode, move,
\* moveBefore, moveAfter on a node wrapper) and every non-local event batch
\* handled while the tree wrapper is subscribed signals the tree wrapper's
\* atom and the atom of every node wrapper in the sub-cache at that moment,
\* the nodes the change did not touch included.
C13_CoarseInvalidation ==
  \A ref \in DOMAIN wrappers : wrappers[ref].kind = "tree" =>
    /\ LastWas("apply") /\ log[1].atom = Atom(ref) => TreeAtoms(ref) \subseteq Changed
    /\ (/\ LastWas("flush") /\ log[1].saw.by # "local"
        /\ ref \in Subscribers(Here, log[1].saw)) => TreeAtoms(ref) \subseteq Changed

\* node 2 was deleted through the tree wrapper while nodes 1 and 2 were
\* cached: node 1, which the delete did not touch, was signalled too
C13_Witness ==
  /\ LastWas("apply") /\ wrappers[log[1].atom[1]].kind = "tree"
  /\ DOMAIN wrappers[log[1].atom[1]].nodeWrappers = {1, 2}
  /\ nodes[2].deleted /\ NodeView(nodes, 1) = NodeView(InitialNodes, 1)
  /\ NodeAtom(log[1].atom[1], 1) \in Changed

\* C14 (as stated) - nested identity: the wrapper a container-inserting
\* write returned is what every later read that reaches the child returns:
\* pool.get of the raw child, list.get / toArray at the child's index,
\* map.get of its key.
C14_NestedIdentity ==
  \A c \in Held :
    LET sl == nested.slot[c]
        W == WrapperValue(sl.w)
    IN /\ get(Heap, ContainerValue(sl.child.kind, sl.child.id)).ret = W
       /\ \A ref \in DOMAIN wrappers : ContainerOf(wrappers[ref]) = c =>
            IF c.kind = "map" THEN mapGetKey(Heap, nested, content, ref).ret = W
            ELSE listGetAt(Heap, nested, content, ref, sl.at).ret = W

\* C14 (amended) - nested identity while the entry lasts: the wrapper W a
\* container-inserting write returns is the pool's cached wrapper of the new
\* child, of the child's kind; no step replaces that registry entry by
\* another wrapper (clearInstance / clearAll can remove it); and while W is
\* the cached wrapper every read that reaches the child returns W and
\* changes nothing, also after a movable-list move changed the child's index.
C14_NestedIdentityWhileCached ==
  /\ [](\A c \in Held :
          LET sl == nested.slot[c]
              W == WrapperValue(sl.w)
          IN /\ LastWas("apply") /\ Entries("inserted") # {} /\ ContainerOf(wrappers[log[1].atom[1]]) = c =>
                  /\ CachedRef(pool, sl.child) = sl.w
                  /\ ContainerOf(wrappers[sl.w]) = sl.child
                  /\ \A i \in Entries("inserted") : log[i].saw = W
             /\ CachedRef(pool, sl.child) = sl.w =>
                  /\ get(Heap, ContainerValue(sl.child.kind, sl.child.id)) = Result(pool, wrappers, W)
                  /\ \A ref \in DOMAIN wrappers : ContainerOf(wrappers[ref]) = c =>
                       IF c.kind = "map"
                       THEN mapGetKey(Heap, nested, content, ref) = Result(pool, wrappers, W)
                       ELSE listGetAt(Heap, nested, content, ref, sl.at) = Result(pool, wrappers, W))
  /\ [][pool' # pool =>
          \A c \in Held :
            (/\ nested'.slot[c] = nested.slot[c]
             /\ CachedRef(pool, nested.slot[c].child) = nested.slot[c].w) =>
              CachedRef(pool', nested.slot[c].child) \in {nested.slot[c].w, NoRef}]_vars

\* a child was inserted into the movable list, a move changed its index,
\* and list.get at the new index has just returned the wrapper the insert
\* had returned
C14_Witness ==
  /\ LastWas("element") /\ wrappers[log[1].atom[1]].kind = "movable"
  /\ docOps = 2 /\ Len(pending) = 2
  /\ LET sl == nested.slot[ContainerOf(wrappers[log[1].atom[1]])]
     IN /\ sl.child # NoChild /\ sl.at = log[1].saw.at
        /\ log[1].saw.ret = WrapperValue(sl.w)

\* C15 - clearInstance frame: clearInstance(kind, id) removes exactly the
\* entry (kind, id); every other entry of every registry and the
\* document-level subscription are unchanged, so size drops by one when the
\* entry existed and by zero otherwise; the next pool.get of that container
\* constructs and caches a wrapper that is none of the wrappers made so far,
\* the removed one included.
C15_ClearInstanceFrame ==
  /\ \A type \in Kinds \cup OtherKinds : \A id \in ContainerIDs :
       LET q == clearInstance(pool, type, id)
           G == get([pool |-> q, wrappers |-> wrappers], ContainerValue(type, id))
       IN /\ \A c \in [kind : Kinds, id : ContainerIDs] :
               IF c = Container(type, id) THEN CachedRef(q, c) = NoRef
               ELSE CachedRef(q, c) = CachedRef(pool, c)
          /\ q.unsubscribe = pool.unsubscribe
          /\ size(q) = size(pool) - (IF has(pool, type, id) THEN 1 ELSE 0)
          /\ type \in Kinds =>
               /\ G.ret.tag = "wrapper"
               /\ G.ret.ref \notin DOMAIN wrappers
               /\ CachedRef(G.pool, Container(type, id)) = G.ret.ref
  /\ LastWas("clearInstance") /\ log[1].saw =>
       \E ref \in DOMAIN wrappers : ~Cached(pool, ref)

\* clearInstance removed the entry of a wrapper the application still
\* holds, and another wrapper is still cached
C15_Witness ==
  /\ LastWas("clearInstance") /\ log[1].saw
  /\ Len(wrappers) = 2 /\ ~Cached(pool, 1) /\ Cached(pool, 2)
  /\ size(pool) = 1

\* C16 - disposal idempotence: dispose() can be called any number of times;
\* the call that finds the document-level subscription invokes its
\* unsubscribe exactly once and forgets it, every later call invokes no
\* unsubscribe, disposing twice leaves what disposing once leaves, and the
\* pool's size is 0 after each call.
C16_DisposeIdempotent ==
  /\ [](/\ dispose(dispose(pool)) = dispose(pool)
        /\ size(dispose(pool)) = 0
        /\ LastWas("dispose") =>
             /\ size(pool) = 0
             /\ ~pool.unsubscribe
             /\ Cardinality(Entries("docUnsubscribe")) <= 1)
  /\ [][/\ (log' # <<>> /\ log'[1].e = "dispose") =>
             (pool.unsubscribe <=> \E i \in DOMAIN log' : log'[i].e = "docUnsubscribe")
        /\ ~pool.unsubscribe => ~pool'.unsubscribe]_vars

\* a second dispose(): wrappers had been resolved, the first call had
\* unsubscribed, and this call invoked nothing
C16_Witness ==
  /\ LastWas("dispose") /\ Len(log) = 1
  /\ wrappers # <<>>

\* C17 - a wrapper never outlives its pool: when pool.dispose() returns, no
\* wrapper the pool created holds a subscription to its container, the
\* wrappers observed by a live reaction at that moment included.
C17_NoSubscriptionSurvivesDispose ==
  LastWas("dispose") => \A ref \in DOMAIN wrappers : ~wrappers[ref].unsubscribe

\* C18 - unknown container kind: pool.get of a container whose kind is none
\* of map, list, movable list, tree and text does not hand the value back as
\* it does for a value that is no container; the call fails instead.
C18_UnknownKindFailsLoudly ==
  LastWas("get") /\ log[1].saw.value.tag = "container"
                 /\ log[1].saw.value.kind \in OtherKinds =>
    /\ log[1].saw.ret # log[1].saw.value
    /\ log[1].saw.ret.tag = "error"

\* C19 - construction guard: every node wrapper object that exists was made
\* by the owning tree wrapper's wrapNode and sits in its sub-cache; a
\* construction by any other path fails at once, so no construction outside
\* wrapNode ever hands back an object.
C19_ConstructionGuard ==
  /\ \A ref \in DOMAIN wrappers :
       wrappers[ref].made = Cardinality(DOMAIN wrappers[ref].nodeWrappers)
  /\ ~LastWas("new")

\* C20 - delegated failures: when the underlying container rejects a write
\* (an index out of bounds, a move that would close a cycle, a missing or
\* deleted parent or target) the wrapper method ends with that error: it
\* reports no atom changed, re-runs no reaction, and leaves the document,
\* the registries, the wrappers and their node sub-caches as they were.
C20_DelegatedFailure ==
  /\ [](LastWas("throw") => Len(log) = 1)
  /\ [][(log' # <<>> /\ log'[1].e = "throw") =>
          UNCHANGED <<pool, wrappers, content, nodes, nested, reactions, pending, docOps>>]_vars

\* a move the tree rejected, made through a tree wrapper that a live
\* reaction observes and that has a cached node
C20_Witness ==
  /\ LastWas("throw") /\ wrappers[log[1].atom[1]].kind = "tree"
  /\ Observers(reactions, log[1].atom) # {}
  /\ wrappers[log[1].atom[1]].nodeWrappers # <<>>

\* the pool docPools holds for a document, and the pool field of a wrapper
\* made through the utility functions
PoolOf(U, doc) == U.docPools[doc]
OwnerOf(U, value) == U.owner[value.ref]

\* C21 - one pool per document: as long as disposePool is not called for a
\* document, every getMap / getList / getTree / getMovableList / getText for
\* it uses the pool docPools holds (no step but disposePool changes that
\* entry), the wrapper returned has that pool as its pool, asking again for
\* the same kind and key returns the same wrapper and changes nothing, and
\* the pools of two documents are two pools, each constructed on its document.
C21_OnePoolPerDocument ==
  /\ [](/\ \A d \in Docs : PoolOf(utils, d) # NoRef =>
             /\ utils.pools[PoolOf(utils, d)].doc = d
             /\ \A k \in Kinds :
                  LET G == docGet(utils, d, k, "a")
                      H == docGet(G.utils, d, k, "a")
                  IN /\ PoolOf(G.utils, d) = PoolOf(utils, d)
                     /\ G.utils.pools[PoolOf(utils, d)].doc = d
                     /\ G.ret.tag = "wrapper"
                     /\ OwnerOf(G.utils, G.ret) = PoolOf(utils, d)
                     /\ H.ret = G.ret /\ H.utils = G.utils
        /\ \A d1, d2 \in Docs :
             (d1 # d2 /\ PoolOf(utils, d1) # NoRef) => PoolOf(utils, d1) # PoolOf(utils, d2)
        /\ \A r1, r2 \in DOMAIN utils.wrappers :
             (/\ utils.owner[r1] = utils.owner[r2]
              /\ ContainerOf(utils.wrappers[r1]) = ContainerOf(utils.wrappers[r2])) => r1 = r2
        /\ LastWas("docGet") =>
             /\ log[1].saw.pool = PoolOf(utils, log[1].saw.doc)
             /\ utils.pools[log[1].saw.pool].doc = log[1].saw.doc)
  /\ [][utils' # utils =>
          \A d \in Docs :
            (PoolOf(utils, d) # NoRef /\ PoolOf(utils', d) # PoolOf(utils, d))
              => (log'[1].e = "disposePool" /\ log'[1].saw.doc = d)]_vars

\* the two documents each have a pool, the first holds a map and a list
\* wrapper, and getMap(doc, "a") has just returned that map wrapper again
C21_Witness ==
  /\ LastWas("docGet") /\ log[1].saw.kind = "map"
  /\ PoolOf(utils, "doc") = 1 /\ PoolOf(utils, "doc2") = 2
  /\ Len(utils.pools) = 2
  /\ \E r1, r2 \in DOMAIN utils.wrappers :
       /\ r1 < r2 /\ utils.owner[r1] = 1 /\ utils.owner[r2] = 1
       /\ utils.wrappers[r1].kind = "map" /\ utils.wrappers[r2].kind = "list"
       /\ log[1].saw.ret = WrapperValue(r1) /\ log[1].saw.pool = 1
  /\ \E r3 \in DOMAIN utils.wrappers : utils.owner[r3] = 2

\* C22 - disposePool(doc) disposes the document's pool and forgets it: the
\* pool is unsubscribed and empty, docPools has no entry for the document,
\* and the next get* call for the document constructs a pool that is none of
\* the pools made so far and returns a wrapper, itself new, whose pool is
\* that new pool; for a document without a pool disposePool changes nothing.
C22_DisposePoolForgets ==
  /\ \A d \in Docs :
       LET p == PoolOf(utils, d)
           D == disposePool(utils, d)
       IN IF p = NoRef THEN D = utils
          ELSE /\ PoolOf(D, d) = NoRef
               /\ D.pools[p] = dispose(utils.pools[p])
               /\ ~D.pools[p].unsubscribe /\ size(D.pools[p]) = 0
               /\ \A q \in DOMAIN utils.pools : q # p => D.pools[q] = utils.pools[q]
               /\ \A e \in Docs \ {d} : PoolOf(D, e) = PoolOf(utils, e)
               /\ \A k \in Kinds :
                    LET G == docGet(D, d, k, "a")
                    IN /\ PoolOf(G.utils, d) \notin DOMAIN utils.pools
                       /\ G.utils.pools[PoolOf(G.utils, d)].doc = d
                       /\ G.ret.tag = "wrapper" /\ G.ret.ref \notin DOMAIN utils.wrappers
                       /\ OwnerOf(G.utils, G.ret) = PoolOf(G.utils, d)
  /\ LastWas("disposePool") =>
       /\ PoolOf(utils, log[1].saw.doc) = NoRef
       /\ log[1].saw.pool # NoRef =>
            /\ ~utils.pools[log[1].saw.pool].unsubscribe
            /\ size(utils.pools[log[1].saw.pool]) = 0
  /\ LastWas("docGet") => utils.pools[log[1].saw.pool].unsubscribe

\* getMap(doc, "a") after disposePool(doc): the map wrapper returned is a
\* second one, its pool is the second pool made for the document, and the
\* first pool is disposed
C22_Witness ==
  /\ LastWas("docGet") /\ log[1].saw.doc = "doc" /\ log[1].saw.kind = "map"
  /\ log[1].saw.pool = 2 /\ PoolOf(utils, "doc") = 2
  /\ utils.pools[1].doc = "doc" /\ ~utils.pools[1].unsubscribe
  /\ utils.owner = <<1, 2>>
  /\ ContainerOf(utils.wrappers[1]) = ContainerOf(utils.wrappers[2])
  /\ log[1].saw.ret = WrapperValue(2)

\* how many entries of one sort the log holds for one atom
Count(lg, e, atom) == Cardinality({i \in DOMAIN lg : lg[i].e = e /\ lg[i].atom = atom})

\* C23 - subscribe and unsubscribe happen exactly at the observer-count
\* transitions: a step subscribes a wrapper to its container once when the
\* wrapper's atom goes from no observer to some and not otherwise, and
\* unsubscribes it once when the atom goes from some observer to none and
\* not otherwise, however often that has happened before; so a wrapper has
\* one callback registered while observed and none while not, and no
\* reaction that has been disposed is ever run by a later change.
C23_SubscribeAtTransitions ==
  /\ [](/\ \A ref \in DOMAIN wrappers :
             /\ wrappers[ref].active = IF Observers(reactions, Atom(ref)) # {} THEN 1 ELSE 0
             /\ wrappers[ref].unsubscribe <=> wrappers[ref].active = 1
        /\ \A i \in Entries("run") : reactions[log[i].r].live)
  /\ [][\A ref \in DOMAIN wrappers :
          LET before == Observers(reactions, Atom(ref)) # {}
              after == Observers(reactions', Atom(ref)) # {}
          IN /\ Count(log', "subscribe", Atom(ref)) = IF ~before /\ after THEN 1 ELSE 0
             /\ Count(log', "unsubscribe", Atom(ref)) = IF before /\ ~after THEN 1 ELSE 0]_vars

\* the last reaction observing a map wrapper has just been disposed, after
\* an imported change had reached it: the wrapper unsubscribed once, and
\* the other wrapper, still observed, stays subscribed
C23_Witness ==
  /\ log # <<>> /\ log[1].e = "unsubscribe" /\ Len(log) = 1
  /\ LET w == wrappers[log[1].atom[1]] IN
       /\ w.kind = "map" /\ w.active = 0 /\ ~w.unsubscribe
       /\ content[ContainerOf(w)] # 0
  /\ docOps = 1 /\ pending = <<>>
  /\ \E ref \in DOMAIN wrappers : wrappers[ref].active = 1

\* C24 - unsubscription is idempotent: a step invokes the subscription
\* handle of a wrapper, or of the pool, at most once, only when the handle
\* is held, and forgets it in the same step, so no handle is invoked twice;
\* the last-observer hook of a wrapper without a handle and dispose() of a
\* pool without a handle invoke nothing and change nothing.
C24_UnsubscribeIdempotent ==
  /\ [](/\ \A ref \in DOMAIN wrappers :
             LET w == wrappers[ref] IN
             /\ w.active \in {0, 1}
             /\ ~w.unsubscribe => onBecomeUnobserved(w) = w
             /\ onBecomeUnobserved(onBecomeUnobserved(w)) = onBecomeUnobserved(w)
             /\ onBecomeUnobserved(w).active = 0
        /\ ~pool.unsubscribe => dispose(pool) = clearAll(pool)
        /\ ~dispose(pool).unsubscribe)
  /\ [][/\ \A ref \in DOMAIN wrappers :
             LET calls == Count(log', "unsubscribe", Atom(ref)) IN
             /\ calls <= 1
             /\ calls = 1 <=> (wrappers[ref].unsubscribe /\ ~wrappers'[ref].unsubscribe)
        /\ LET calls == Cardinality({i \in DOMAIN log' : log'[i].e = "docUnsubscribe"}) IN
             /\ calls <= 1
             /\ calls = 1 <=> (pool.unsubscribe /\ ~pool'.unsubscribe)]_vars

\* dispose() on a pool that was disposed before, while one wrapper is
\* still observed and another has given up its subscription: nothing is
\* invoked
C24_Witness ==
  /\ LastWas("dispose") /\ Entries("docUnsubscribe") = {}
  /\ ~pool.unsubscribe
  /\ \E r1, r2 \in DOMAIN wrappers :
       /\ wrappers[r1].unsubscribe /\ wrappers[r1].active = 1
       /\ ~wrappers[r2].unsubscribe /\ wrappers[r2].active = 0
  /\ docOps = 1

\* C25 - the external notification path exists only while observed: when
\* the document flushes a batch, the callback runs for no wrapper that is
\* unobserved at that moment and no atom of such a wrapper is reported
\* changed, whatever imports and observe / unobserve transitions came
\* before; a reaction created later reads the current state on its first
\* run, the changes whose flush found the wrapper unobserved included.
C25_NoCallbackWhileUnobserved ==
  /\ LastWas("flush") =>
       /\ \A i \in Entries("callback") :
            /\ wrappers[log[i].atom[1]].unsubscribe
            /\ Observers(reactions, log[i].atom) # {}
       /\ \A ref \in DOMAIN wrappers : Observers(reactions, Atom(ref)) = {} =>
            /\ Count(log, "callback", Atom(ref)) = 0
            /\ Count(log, "changed", Atom(ref)) = 0
            /\ ref \notin Subscribers(Here, log[1].saw)
  /\ LastWas("subscribe") =>
       \A i \in Entries("run") :
         /\ reactions[log[i].r].live
         /\ log[i].saw = Fresh(log[i].r) /\ reactions[log[i].r].saw = Fresh(log[i].r)

\* the batch of an import was flushed while the map wrapper of the changed
\* container was unobserved and a wrapper of another container was
\* observed: no callback ran and nothing was signalled
C25_Witness ==
  /\ LastWas("flush") /\ log[1].saw.by = "import" /\ Len(log) = 1
  /\ \E ref \in DOMAIN wrappers :
       /\ ContainerOf(wrappers[ref]) = log[1].saw.target
       /\ wrappers[ref].kind = "map" /\ ~wrappers[ref].unsubscribe
       /\ content[ContainerOf(wrappers[ref])] # 0
  /\ \E ref \in DOMAIN wrappers : wrappers[ref].unsubscribe
       /\ Observers(reactions, Atom(ref)) # {}

\* C26 - no automatic eviction: a step adds a registry entry only when it is
\* a pool.get (direct, or the one a node resolution makes for the node's
\* metadata map) and removes one only when it is clearInstance, clearAll or
\* dispose, and no step replaces the wrapper of an entry that stays; the
\* flush of an event batch, local or imported, the batch of a deletion
\* included, leaves the pool as it was, and so does handleLoroEvent.
C26_NoAutomaticEviction ==
  /\ [](\A c \in DocContainers, by \in {"local", "import"} :
          handleLoroEvent(pool, Event(c, by)) = pool)
  /\ [][/\ (log' # <<>> /\ log'[1].e = "flush") => pool' = pool
        /\ pool' # pool =>
             LET K == CachedKeys(pool)
                 L == CachedKeys(pool')
             IN /\ \A c \in K \cap L : CachedRef(pool', c) = CachedRef(pool, c)
                /\ L \ K # {} => (K \subseteq L /\ log'[1].e \in {"get", "resolve"})
                /\ K \ L # {} =>
                     (L \subseteq K /\ (ClearAll \/ log'[1].e \in {"clearInstance", "dispose"}))]_vars

\* the batch of a node deletion has just been flushed to a pool that holds
\* the wrapper of the deleted node's metadata map: the wrapper is still
\* cached
C26_Witness ==
  /\ LastWas("flush") /\ log[1].saw.target.kind = "tree"
  /\ pool.unsubscribe
  /\ \E n \in DOMAIN nodes :
       /\ nodes[n].deleted
       /\ pool.maps[DataId(n)] # NoRef
       /\ wrappers[pool.maps[DataId(n)]].id = DataId(n)
  /\ pool.trees[RootId("a")] # NoRef

\* C27 - the node sub-cache of a tree wrapper only grows: a step that
\* changes it keeps every entry it had, with the same node wrapper object,
\* and adds entries only for nodes it resolves (createNode's return value,
\* traversal, by-id lookup), each with an object constructed in that step;
\* deleting a node, locally or by an import, removes nothing: the deleted
\* node's wrapper is still what getNodeByID returns and its isDeleted() is
\* true.
C27_NodeCacheOnlyGrows ==
  /\ [](\A ref \in DOMAIN wrappers :
          LET cache == wrappers[ref].nodeWrappers IN
          /\ Cardinality(DOMAIN cache) = wrappers[ref].made
          /\ \A n \in DOMAIN cache :
               /\ cache[n].obj \in 1..wrappers[ref].made
               /\ n \in DOMAIN nodes /\ nodes[n].tree = wrappers[ref].id
               /\ IsDeleted(nodes, n) =>
                    /\ getNodeByID(Heap, nodes, ref, n) = Result(pool, wrappers, <<CachedNode(ref, n)>>)
                    /\ nodeIsDeleted(Here, ref, n)[2])
  /\ [][wrappers' # wrappers =>
          \A ref \in DOMAIN wrappers :
            LET old == wrappers[ref].nodeWrappers
                new == wrappers'[ref].nodeWrappers
            IN /\ DOMAIN old \subseteq DOMAIN new
               /\ \A n \in DOMAIN old : new[n] = old[n]
               /\ \A n \in DOMAIN new \ DOMAIN old :
                    /\ new[n].obj > wrappers[ref].made
                    /\ \/ /\ log'[1].e = "resolve"
                          /\ \E i \in DOMAIN log'[1].saw.ret : log'[1].saw.ret[i].node = n
                       \/ \E i \in DOMAIN log' : log'[i].e = "return" /\ log'[i].atom = NodeAtom(ref, n)]_vars

\* nodes 1 and 2 were wrapped, an imported edit deleted node 2, and
\* getNodeByID has just returned the object made for node 2 before, which
\* now reports the node deleted
C27_Witness ==
  /\ LastWas("resolve") /\ log[1].saw.how = "getNodeByID"
  /\ LET ref == log[1].atom[1] IN
       /\ DOMAIN wrappers[ref].nodeWrappers = {1, 2}
       /\ nodes[2].deleted /\ nodeIsDeleted(Here, ref, 2)[2]
       /\ log[1].saw.ret = <<CachedNode(ref, 2)>>
       /\ wrappers[ref].nodeWrappers[2].obj = 1
  /\ docOps = 1 /\ pending = <<>>

\* C28 - coarse granularity: a map, list, movable-list or text wrapper has
\* one cell and no other, and a write through the wrapper signals that
\* cell once and re-runs every live reaction that read the container,
\* whether or not the write changed what the reaction read.
C28_CoarseGranularity ==
  /\ \A ref \in DOMAIN wrappers : wrappers[ref].kind # "tree" =>
       {atom \in ExistingAtoms : atom[1] = ref} = {Atom(ref)}
  /\ (LastWas("apply") /\ wrappers[log[1].atom[1]].kind # "tree") =>
       /\ Changed = {log[1].atom}
       /\ Count(log, "changed", log[1].atom) = 1
       /\ \A r \in Observers(reactions, log[1].atom) :
            Cardinality({i \in Entries("run") : log[i].r = r}) = 1

\* a container was pushed to the end of a list whose first element a live
\* reaction had read: the element is what it was, and the reaction re-ran
C28_Witness ==
  /\ LastWas("apply") /\ Entries("inserted") # {}
  /\ LET ref == log[1].atom[1]
         sl == nested.slot[ContainerOf(wrappers[ref])]
     IN /\ wrappers[ref].kind = "list"
        /\ sl.child # NoChild /\ sl.at = 1
        /\ docOps = 1 /\ content[ContainerOf(wrappers[ref])] = 0
        /\ \E r \in Observers(reactions, Atom(ref)) :
             /\ \E i \in Entries("run") : log[i].r = r
             /\ reactions[r].saw[Atom(ref)] = 0
             /\ listGetAt(Heap, nested, content, ref, 0).ret = NumberValue(reactions[r].saw[Atom(ref)])

\* C29 - batched invalidation: a structural mutation, and a handled
\* remote batch, signals the tree atom and the cached node atoms in one
\* batch: every cell is signalled before any reaction runs, a reaction
\* that depends on several of the signalled cells runs once, not once per
\* cell, and its run reads the tree and the nodes as the mutation left them.
C29_BatchedInvalidation ==
  (/\ LastWas("apply") \/ (LastWas("flush") /\ log[1].saw.by # "local")
   /\ \E ref \in DOMAIN wrappers : wrappers[ref].kind = "tree" /\ Atom(ref) \in Changed) =>
    /\ \A i \in Entries("changed"), j \in Entries("run") : i < j
    /\ \A r \in Reactions :
         LET runs == {i \in Entries("run") : log[i].r = r} IN
         /\ Cardinality(runs) = IF reactions[r].live /\ reactions[r].deps \cap Changed # {}
                                THEN 1 ELSE 0
         /\ \A i \in runs : log[i].saw = Fresh(r) /\ reactions[r].saw = Fresh(r)

\* a node was moved through the tree wrapper while one reaction depended
\* on the tree cell and on a node cell: both cells were signalled and the
\* reaction ran once
C29_Witness ==
  /\ LastWas("apply") /\ wrappers[log[1].atom[1]].kind = "tree"
  /\ nodes[2].parent # InitialNodes[2].parent
  /\ \E r \in Reactions :
       /\ reactions[r].live /\ Cardinality(reactions[r].deps) = 2
       /\ reactions[r].deps \subseteq Changed
       /\ log[1].atom \in reactions[r].deps
       /\ Cardinality({i \in Entries("run") : log[i].r = r}) = 1
  /\ Cardinality(Entries("changed")) >= 2

\* C30 - map.getOrCreateContainer(key, child) signals the map's observers
\* when it creates the container at the key and not when a container is
\* already there; in the second case it returns the wrapper cached for the
\* existing container.
C30_GetOrCreateSignalsOnCreateOnly ==
  [][(/\ log' # <<>> /\ log'[1].e = "apply"
      /\ \E i \in DOMAIN log' : log'[i].e = "inserted"
      /\ wrappers[log'[1].atom[1]].kind = "map") =>
       LET ref == log'[1].atom[1]
           sl == nested.slot[ContainerOf(wrappers[ref])]
       IN IF nested'.made > nested.made
          THEN /\ Count(log', "changed", Atom(ref)) = 1
               /\ \A r \in Observers(reactions, Atom(ref)) :
                    \E i \in DOMAIN log' : log'[i].e = "run" /\ log'[i].r = r
          ELSE /\ Count(log', "changed", Atom(ref)) = 0
               /\ \A i \in DOMAIN log' : log'[i].e # "run"
               /\ CachedRef(pool, sl.child) # NoRef =>
                    \A i \in DOMAIN log' : log'[i].e = "inserted" =>
                      log'[i].saw = WrapperValue(CachedRef(pool, sl.child))]_vars

\* the metadata map wrapper held by the node wrapper cached for node n
DataOf(ref, n) == wrappers[ref].nodeWrappers[n].data

\* C31 (as stated) - node data flyweight: for every node wrapper N, in every
\* reachable state, pool.get(N.original.data) returns N.data.
C31_NodeDataFlyweight ==
  \A ref \in DOMAIN wrappers : \A n \in DOMAIN wrappers[ref].nodeWrappers :
    get(Heap, ContainerValue("map", DataId(n))).ret = WrapperValue(DataOf(ref, n))

\* C31 (amended) - node data flyweight while the entry lasts: N.data is a
\* map wrapper of the node's metadata map, fixed at N's construction; when a
\* node is wrapped for the first time the pool's map registry holds N.data
\* for that map; no step replaces that entry by another wrapper (clearInstance
\* / clearAll / dispose can remove it); and while the entry is N.data,
\* pool.get(N.original.data) returns N.data and changes nothing.
C31_NodeDataFlyweightWhileCached ==
  /\ [](\A ref \in DOMAIN wrappers : \A n \in DOMAIN wrappers[ref].nodeWrappers :
          /\ DataOf(ref, n) \in DOMAIN wrappers
          /\ ContainerOf(wrappers[DataOf(ref, n)]) = Container("map", DataId(n))
          /\ pool.maps[DataId(n)] = DataOf(ref, n) =>
               get(Heap, ContainerValue("map", DataId(n)))
                 = Result(pool, wrappers, WrapperValue(DataOf(ref, n))))
  /\ [][(wrappers' # wrappers \/ pool' # pool) =>
          \A ref \in DOMAIN wrappers' : \A n \in DOMAIN wrappers'[ref].nodeWrappers :
            IF ref \in DOMAIN wrappers /\ n \in DOMAIN wrappers[ref].nodeWrappers
            THEN /\ wrappers'[ref].nodeWrappers[n].data = DataOf(ref, n)
                 /\ pool.maps[DataId(n)] = DataOf(ref, n) =>
                      pool'.maps[DataId(n)] \in {DataOf(ref, n), NoRef}
            ELSE pool'.maps[DataId(n)] = wrappers'[ref].nodeWrappers[n].data]_vars

\* node 1 is wrapped and pool.get of its metadata map has just returned the
\* node wrapper's data
C31_Witness ==
  /\ LastWas("get") /\ log[1].saw.value = ContainerValue("map", DataId(1))
  /\ \E ref \in DOMAIN wrappers :
       /\ 1 \in DOMAIN wrappers[ref].nodeWrappers
       /\ log[1].saw.ret = WrapperValue(DataOf(ref, 1))
       /\ pool.maps[DataId(1)] = DataOf(ref, 1)

\* the (kind, identity) pairs pool.has answers true for, any kind asked
HasPairs(p) ==
  {c \in [kind : Kinds \cup OtherKinds, id : ContainerIDs] : has(p, c.kind, c.id)}

\* C32 - introspection agrees with the registries: pool.size is the number
\* of (kind, identity) pairs pool.has answers true for; after clearAll() the
\* size is 0 and has is false for every pair; has of a kind that is none of
\* the five is false whatever is cached.
C32_IntrospectionConsistent ==
  /\ size(pool) = Cardinality(HasPairs(pool))
  /\ \A c \in HasPairs(pool) : c.kind \in Kinds /\ CachedRef(pool, c) # NoRef
  /\ \A k \in OtherKinds, id \in ContainerIDs : ~has(pool, k, id)
  /\ size(clearAll(pool)) = 0
  /\ HasPairs(clearAll(pool)) = {}
  /\ (log = <<>> /\ wrappers # <<>>) => size(pool) = 0 /\ HasPairs(pool) = {}

\* clearAll() has just emptied a pool that had handed out two wrappers and
\* still holds its document subscription
C32_Witness ==
  /\ log = <<>> /\ Len(wrappers) = 2 /\ pool.unsubscribe
  /\ size(pool) = 0
  /\ \A c \in RootContainers : ~has(pool, c.kind, c.id)

\* C33 - missing prerequisite: a node wrapper constructor called with a
\* null or undefined pool throws; the call makes no object, adds nothing to
\* the tree wrapper's node sub-cache and nothing to the pool's map registry,
\* and leaves every wrapper as it was.
C33_MissingPoolFailsFast ==
  /\ [](\A ref \in DOMAIN wrappers : wrappers[ref].kind = "tree" =>
          \A n \in TreeNodes(nodes, wrappers[ref].id) :
            constructor(Heap, ref, n, FALSE) = Result(pool, wrappers, NoObject))
  /\ [][(log' # <<>> /\ log'[1].e = "throw") =>
          /\ Len(log') = 1
          /\ pool' = pool
          /\ wrappers' = wrappers
          /\ pool'.maps[DataId(log'[1].atom[2])] = pool.maps[DataId(log'[1].atom[2])]
          /\ DOMAIN wrappers'[log'[1].atom[1]].nodeWrappers
               = DOMAIN wrappers[log'[1].atom[1]].nodeWrappers]_vars

\* the constructor has just thrown for node 2, which has neither a cached
\* node wrapper nor a cached metadata map wrapper, while node 1 has both
C33_Witness ==
  /\ LastWas("throw") /\ log[1].atom[2] = 2
  /\ DOMAIN wrappers[log[1].atom[1]].nodeWrappers = {1}
  /\ pool.maps[DataId(2)] = NoRef /\ pool.maps[DataId(1)] # NoRef
  /\ wrappers[log[1].atom[1]].made = 1

\* the wrappers and registry entries of the unprimed state are in the primed
\* state as they were, but for node wrappers added to sub-caches
OnlyAdded ==
  /\ pool'.unsubscribe = pool.unsubscribe
  /\ \A c \in CachedKeys(pool) : CachedRef(pool', c) = CachedRef(pool, c)
  /\ \A c \in CachedKeys(pool') \ CachedKeys(pool) :
       /\ CachedRef(pool', c) \notin DOMAIN wrappers
       /\ ContainerOf(wrappers'[CachedRef(pool', c)]) = c
  /\ Len(wrappers') = Len(wrappers) + Cardinality(CachedKeys(pool') \ CachedKeys(pool))
  /\ \A ref \in DOMAIN wrappers :
       /\ [wrappers'[ref] EXCEPT !.nodeWrappers = <<>>, !.made = 0]
            = [wrappers[ref] EXCEPT !.nodeWrappers = <<>>, !.made = 0]
       /\ \A n \in DOMAIN wrappers[ref].nodeWrappers :
            /\ n \in DOMAIN wrappers'[ref].nodeWrappers
            /\ wrappers'[ref].nodeWrappers[n] = wrappers[ref].nodeWrappers[n]

\* C34 - reads have no write effects: a read through a wrapper or a node
\* wrapper (a plain read, a resolution of nodes, an element read, the reads
\* of a reaction's run) reports no atom changed, re-runs no reaction and
\* leaves the document as it is; a read outside a reaction changes nothing
\* but the registries and sub-caches, which gain the wrappers of what it
\* returned and lose or replace nothing; a reaction's first run changes
\* nothing but the subscriptions of the atoms it starts to observe.
C34_ReadsDoNotWrite ==
  [][(log' # <<>> /\ log'[1].e \in {"read", "resolve", "element", "subscribe", "run"}) =>
       /\ \A i \in DOMAIN log' : log'[i].e \notin {"changed", "apply", "callback"}
       /\ UNCHANGED <<content, nodes, nested, pending, docOps>>
       /\ IF log'[1].e \in {"read", "resolve", "element"}
          THEN /\ Len(log') = 1
               /\ reactions' = reactions
               /\ OnlyAdded
               /\ log'[1].e = "read" => pool' = pool /\ wrappers' = wrappers
          ELSE /\ pool' = pool
               /\ \A r \in Reactions : reactions[r].live => reactions'[r] = reactions[r]
               /\ \A i \in DOMAIN log' : log'[i].e = "run" => ~reactions[log'[i].r].live
               /\ DOMAIN wrappers' = DOMAIN wrappers
               /\ \A ref \in DOMAIN wrappers :
                    [wrappers'[ref] EXCEPT !.unsubscribe = FALSE, !.active = 0]
                      = [wrappers[ref] EXCEPT !.unsubscribe = FALSE, !.active = 0]]_vars

\* node 1's children() has just returned the wrapper of node 2, now cached
\* with its metadata map wrapper, while a live reaction observes the tree
\* wrapper; the reaction was not re-run
C34_Witness ==
  /\ LastWas("resolve") /\ log[1].saw.how = "children" /\ Len(log) = 1
  /\ Len(log[1].saw.ret) = 1 /\ log[1].saw.ret[1].node = 2
  /\ DOMAIN wrappers[log[1].atom[1]].nodeWrappers = {1, 2}
  /\ pool.maps[DataId(2)] = Len(wrappers)
  /\ Observers(reactions, log[1].atom) # {}

\* the atoms a local write through wrapper w may signal: its own and, for a
\* tree wrapper, those of its cached node wrappers
OwnAtoms(w) ==
  {Atom(w)} \cup (IF wrappers[w].kind = "tree"
                  THEN {NodeAtom(w, n) : n \in DOMAIN wrappers[w].nodeWrappers}
                  ELSE {})

\* C35 - a local write signals the written wrapper alone: a write through
\* wrapper W reports W's own atom changed (a structural write through a tree
\* wrapper or one of its node wrappers: the tree's atom and its cached
\* nodes' atoms) and no atom of any other wrapper, parent, child or sibling;
\* the reactions it re-runs are those that observe one of these atoms, so a
\* reaction that read only the parent is not re-run by a write through the
\* wrapper of a node's metadata map or of a nested child container.
C35_WriteSignalsOwnCellOnly ==
  LastWas("apply") =>
    /\ Changed \subseteq OwnAtoms(log[1].atom[1])
    /\ Atom(log[1].atom[1]) \in Changed
    /\ \A r \in Reactions :
         (\E i \in Entries("run") : log[i].r = r)
           <=> (reactions[r].live /\ reactions[r].deps \cap OwnAtoms(log[1].atom[1]) # {})

\* node 1's metadata map was written through its wrapper (node.data.set)
\* while a live reaction observed the tree wrapper that caches node 1: the
\* map's atom alone was signalled and the reaction was not re-run
C35_Witness ==
  /\ LastWas("apply") /\ ContainerOf(wrappers[log[1].atom[1]]) = Container("map", DataId(1))
  /\ content[Container("map", DataId(1))] = 1
  /\ \E t \in DOMAIN wrappers :
       /\ wrappers[t].kind = "tree" /\ 1 \in DOMAIN wrappers[t].nodeWrappers
       /\ DataOf(t, 1) = log[1].atom[1]
       /\ reactions[1].live /\ reactions[1].deps = {Atom(t)}
  /\ Changed = {log[1].atom} /\ Entries("run") = {}

\* C36 - direct mutations are silent: a mutation made on the underlying
\* container itself (wrapper.original, or the container taken from the
\* document) reports no atom changed and re-runs no reaction at the call;
\* the batch it queues has origin "local", so when the document delivers it
\* the subscribed callbacks drop it and again nothing is reported and no
\* reaction re-runs, while reads return the new state from the call on.
C36_DirectMutationSilent ==
  /\ [](/\ LastWas("direct") =>
             /\ Len(log) = 1
             /\ pending # <<>> /\ pending[Len(pending)] = Event(log[1].saw, "local")
             /\ \A ref \in DOMAIN wrappers :
                  (ContainerOf(wrappers[ref]) = log[1].saw /\ wrappers[ref].kind # "tree")
                    => read(Here, Atom(ref)) = content[log[1].saw]
        /\ (LastWas("flush") /\ log[1].saw.by = "local") =>
             Entries("changed") = {} /\ Entries("run") = {})
  /\ [][(/\ log' # <<>> /\ log'[1].e \in {"direct", "flush"}
         /\ IF log'[1].e = "flush" THEN Head(pending).by = "local" ELSE TRUE) =>
          reactions' = reactions /\ wrappers' = wrappers /\ pool' = pool]_vars

\* a container was mutated directly while a reaction observed its wrapper;
\* the document has just delivered the batch to the wrapper's callback,
\* which dropped it: the reaction still holds what it saw before, and a read
\* returns the new content
C36_Witness ==
  /\ LastWas("flush") /\ log[1].saw.by = "local" /\ pending = <<>> /\ docOps = 1
  /\ \E i \in Entries("callback") :
       /\ wrappers[log[i].atom[1]].kind = "map"
       /\ ContainerOf(wrappers[log[i].atom[1]]) = log[1].saw.target
       /\ \E r \in Reactions :
            /\ reactions[r].live /\ log[i].atom \in reactions[r].deps
            /\ reactions[r].saw[log[i].atom] = 0
            /\ mapGet(Here, log[i].atom[1]) = 1

\* the other wrappers made for the container of wrapper w
Twins(w) ==
  {ref \in DOMAIN wrappers : ref # w /\ ContainerOf(wrappers[ref]) = ContainerOf(wrappers[w])}

\* C37 - two wrappers of one container are independent: when a container
\* has a wrapper handed out before clearInstance / clearAll and another one
\* made after it, a local write through one reports only that one's atom
\* changed and re-runs no reaction that observes only the other; the flush
\* of the write's batch re-runs none either; and a reaction starting or
\* ceasing to observe one of them changes the subscription of that one
\* alone.
C37_TwinWrappersIndependent ==
  /\ [](/\ LastWas("apply") =>
             \A t \in Twins(log[1].atom[1]) :
               /\ Atom(t) \notin Changed
               /\ \A i \in Entries("run") : reactions[log[i].r].deps # {Atom(t)}
        /\ (LastWas("flush") /\ log[1].saw.by = "local") => Entries("run") = {})
  /\ [][wrappers' # wrappers =>
          \A ref \in DOMAIN wrappers :
            wrappers'[ref] # wrappers[ref] =>
              \E r \in Reactions : /\ reactions'[r].live # reactions[r].live
                                   /\ Atom(ref) \in reactions[r].deps \cup reactions'[r].deps]_vars

\* the map was written through its second wrapper, made after the first
\* was evicted; a reaction observes the first, which is subscribed while the
\* second is not: the reaction was not re-run and still holds the old value
C37_Witness ==
  /\ LastWas("apply") /\ log[1].atom = Atom(2)
  /\ wrappers[2].kind = "map" /\ Twins(2) = {1}
  /\ ~Cached(pool, 1) /\ Cached(pool, 2)
  /\ wrappers[1].unsubscribe /\ ~wrappers[2].unsubscribe
  /\ Changed = {Atom(2)} /\ Entries("run") = {}
  /\ \E r \in Reactions :
       /\ reactions[r].live /\ reactions[r].deps = {Atom(1)}
       /\ reactions[r].saw[Atom(1)] = 0 /\ mapGet(Here, 1) = 1

\* C38 - the fractional index setting is changed silently:
\* enableFractionalIndex and disableFractionalIndex through the tree wrapper
\* change the underlying tree's setting and report no atom changed, so no
\* reaction is re-run, those that observe the tree wrapper (as a tracked
\* isFractionalIndexEnabled() does) included; a later
\* isFractionalIndexEnabled() answers the new setting.
C38_FractionalIndexSilent ==
  /\ [](/\ LastWas("setting") =>
             /\ Len(log) = 1
             /\ isFractionalIndexEnabled(fractional) = log[1].saw
        /\ (LastWas("read") /\ log[1].saw \in BOOLEAN) => log[1].saw = fractional)
  /\ [][(log' # <<>> /\ log'[1].e = "setting") =>
          /\ reactions' = reactions
          /\ UNCHANGED <<pool, wrappers, content, nodes, nested, pending, docOps>>]_vars

\* the fractional index has just been switched off through the tree
\* wrapper while a live reaction observed that wrapper's atom and its node
\* 1's atom: nothing was reported and the reaction was not re-run
C38_Witness ==
  /\ LastWas("setting") /\ Len(log) = 1 /\ ~fractional
  /\ reactions[1].live
  /\ reactions[1].deps = {log[1].atom, NodeAtom(log[1].atom[1], 1)}
  /\ wrappers[log[1].atom[1]].unsubscribe

\* C39 - a disposed pool goes on working: after dispose() the pool's
\* document subscription is gone and no later step brings it back, yet
\* pool.get of a container still constructs a wrapper, which is none of the
\* wrappers made before the disposal, and caches it, so that the pool's size
\* is positive again and the next pool.get returns that wrapper.
C39_DisposedPoolStillServes ==
  /\ [](/\ ~pool.unsubscribe =>
             \A c \in RootContainers :
               LET G == get(Heap, ValueOf(c))
               IN /\ G.ret.tag = "wrapper"
                  /\ CachedRef(G.pool, c) = G.ret.ref
                  /\ ContainerOf(G.wrappers[G.ret.ref]) = c
                  /\ size(G.pool) > 0
                  /\ ~G.pool.unsubscribe
                  /\ get([pool |-> G.pool, wrappers |-> G.wrappers], ValueOf(c)) = G
        /\ LastWas("dispose") =>
             \A c \in RootContainers : get(Heap, ValueOf(c)).ret.ref \notin DOMAIN wrappers
        /\ (LastWas("get") /\ log[1].saw.value.kind \in Kinds /\ ~pool.unsubscribe) =>
             /\ size(pool) > 0
             /\ log[1].saw.ret.tag = "wrapper"
             /\ CachedRef(pool, Container(log[1].saw.value.kind, log[1].saw.value.id))
                  = log[1].saw.ret.ref)
  /\ [][~pool.unsubscribe => ~pool'.unsubscribe]_vars

\* the pool was disposed after it had handed out a wrapper of the map;
\* pool.get of the map has just returned a second wrapper, the only entry
\* of the pool, whose document subscription is still gone
C39_Witness ==
  /\ LastWas("get") /\ log[1].saw.value = ContainerValue("map", RootId("a"))
  /\ ~pool.unsubscribe
  /\ Len(wrappers) = 2 /\ ContainerOf(wrappers[1]) = ContainerOf(wrappers[2])
  /\ log[1].saw.ret = WrapperValue(2)
  /\ size(pool) = 1 /\ pool.maps[RootId("a")] = 2

====
